---- MODULE Spec2Model ----
(***************************************************************************)
(* Watch Sync: the synchronization orchestration engine.                   *)
(*                                                                         *)
(* The model follows the TypeScript sources: SyncStateMachine (the state   *)
(* with its context), SyncOrchestrator (start / stop / handleFileChanges / *)
(* scheduleRecovery), ProfileValidator, InotifyWatcher (the Change         *)
(* Aggregator) together with ProcessUtils.killProcess, the SyncJob entity, *)
(* and RsyncClient.sync together with ProcessUtils.execute.                *)
(*                                                                         *)
(* Scheduling.  The program runs on one event loop.  A handler runs        *)
(* without interruption up to an `await` on something external (a file     *)
(* system call, a spawned process, the remote session); the continuation   *)
(* of an await on an already settled promise runs in the same turn.  One   *)
(* action of the model is therefore one such uninterrupted stretch of     *)
(* code, and the actions interleave freely.                                *)
(***************************************************************************)
EXTENDS Naturals, Integers, Sequences, FiniteSets, Bags, TLC

(***************************************************************************)
(* Bounds of the model.                                                    *)
(***************************************************************************)
\* start() calls that may be in progress at the same time
MaxStartCalls == 1
\* handleFileChanges invocations that may be awaiting their transfer at once
MaxHandlers == 1
\* watch processes the model distinguishes
MaxProcs == 2
\* watch processes that may exist at the same time during a session
SessionProcs == 1
\* cap of retryCount when the state machine is driven directly (SpecSM)
MaxRetryCount == 4
\* the most events a tracked quiet window holds
MaxWindow == 3
\* method calls made on the SyncJob that is driven directly (SpecJob)
MaxJobCalls == 5
\* transfers that may be executing at the same time (SpecExecFair)
MaxExecs == 2

(***************************************************************************)
(* Program constants.                                                      *)
(***************************************************************************)
\* SyncStateMachine: this.maxRetries = options.maxRetries ?? 3
maxRetries == 3
\* ProfileValidator.validateSSHPort: the legal port range
MinPort == 1
MaxPort == 65535

None == "none"

(***************************************************************************)
(* SyncState and the transition table.                                     *)
(***************************************************************************)
States ==
  {"idle", "initializing", "connecting", "watching", "syncing", "error", "recovering"}

VALID_TRANSITIONS ==
  [s \in States |->
     CASE s = "idle"         -> {"initializing"}
       [] s = "initializing" -> {"connecting", "error", "idle"}
       [] s = "connecting"   -> {"watching", "error", "idle"}
       [] s = "watching"     -> {"syncing", "error", "idle"}
       [] s = "syncing"      -> {"watching", "error"}
       [] s = "error"        -> {"recovering", "idle"}
       [] s = "recovering"   -> {"watching", "error", "idle"}]

(***************************************************************************)
(* Profiles.  A profile is the record of the fields the engine reads.      *)
(***************************************************************************)
MkProfile(alias, user, host, rdir, ldir, port) ==
  [alias |-> alias, remoteUser |-> user, remoteHost |-> host,
   remoteDir |-> rdir, localDir |-> ldir, sshPort |-> port]

ProfileAlpha   == MkProfile("alpha", "deploy", "host", "/remote", "/work", 22)
ProfileBeta    == MkProfile("beta", "deploy", "host", "/remote", "/work", 2222)
ProfileNoHost  == MkProfile("nohost", "deploy", " ", "/remote", "/work", 22)
ProfilePortLow == MkProfile("port0", "deploy", "host", "/remote", "/work", 0)
ProfilePortBig == MkProfile("port65536", "deploy", "host", "/remote", "/work", 65536)
ProfileNoDir   == MkProfile("nodir", "deploy", "host", "/remote", "/missing", 22)
ProfileSecret  == MkProfile("secret", "deploy", "host", "/remote", "/secret", 22)

AllProfiles ==
  {ProfileAlpha, ProfileBeta, ProfileNoHost, ProfilePortLow, ProfilePortBig,
   ProfileNoDir, ProfileSecret}

\* The state holds a profile by its alias; None stands for undefined.
ProfileOf(alias) == CHOOSE p \in AllProfiles : p.alias = alias

\* the local file system the validator looks at
LocalPath(dir) ==
  CASE dir = "/work"   -> "directory"
    [] dir = "/file"   -> "file"
    [] dir = "/secret" -> "unreadable"
    [] OTHER           -> "missing"

(***************************************************************************)
(* ProfileValidator.                                                       *)
(***************************************************************************)
\* !field?.trim(): the field is missing or blank
Blank(str) == str \in {"", " ", "  "}

validateRequiredFields(p) ==
  (IF Blank(p.alias) THEN <<"Profile alias is required">> ELSE <<>>)
  \o (IF Blank(p.remoteUser) THEN <<"Remote user is required">> ELSE <<>>)
  \o (IF Blank(p.remoteHost) THEN <<"Remote host is required">> ELSE <<>>)
  \o (IF Blank(p.remoteDir) THEN <<"Remote directory is required">> ELSE <<>>)
  \o (IF Blank(p.localDir) THEN <<"Local directory is required">> ELSE <<>>)

validateSSHPort(p) ==
  IF p.sshPort < MinPort \/ p.sshPort > MaxPort
  THEN <<"SSH port must be a valid port number (1-65535)">>
  ELSE <<>>

validateLocalDirectory(p) ==
  LET kind == LocalPath(p.localDir) IN
  CASE kind = "missing"    -> <<"Local directory does not exist: " \o p.localDir>>
    [] kind = "file"       -> <<"Local path is not a directory: " \o p.localDir>>
    [] kind = "unreadable" -> <<"Local directory is not readable: " \o p.localDir>>
    [] OTHER               -> <<>>

\* the errors validate() returns once its file-system checks are done
validate(p) ==
  IF validateRequiredFields(p) # <<>>
  THEN validateRequiredFields(p)
  ELSE validateSSHPort(p) \o validateLocalDirectory(p)

RECURSIVE Join(_)
\* errors.join('; ')
Join(msgs) ==
  IF msgs = <<>> THEN ""
  ELSE IF Len(msgs) = 1 THEN msgs[1]
  ELSE msgs[1] \o "; " \o Join(Tail(msgs))

(***************************************************************************)
(* The state of the program.                                               *)
(***************************************************************************)
VARIABLES
  state,                \* SyncStateMachine._state
  profile,              \* SyncStateMachine._profile (None: undefined)
  lastError,            \* SyncStateMachine._lastError (None: undefined)
  retryCount,           \* SyncStateMachine._retryCount
  watcherSubscription,  \* SyncOrchestrator.watcherSubscription is set
  leakedSubscription,   \* a batch listener whose handle was overwritten
  recoveryTimeout,      \* SyncOrchestrator.recoveryTimeout: "none" | "pending"
  process,              \* InotifyWatcher.process: 0 (null) or a process
  procs,                \* the watch processes: their life cycle
  pendingEvents,        \* InotifyWatcher.pendingEvents: path -> event
  debounceTimer,        \* the quiet-window timers that are armed, see queueEvent
  window,               \* the events accepted since the last batch, see queueEvent
  handlers,             \* handleFileChanges invocations awaiting their job
  uncovered,            \* paths of batches ignored while syncing, see fire
  starts,               \* start() calls in progress
  stops,                \* stop() calls awaiting the exit of a process
  killTimers,           \* killProcess calls whose grace timer is armed, see killGrace
  syncJob,              \* a SyncJob whose methods are called directly (SpecJob)
  service,              \* a SyncService.sync call on its own (SpecService)
  startCommand,         \* a StartWatchCommand.startWithConfig call (SpecCommand)
  setup,                \* a validateSetup call of an SSH client (SpecSetup)
  builder,              \* commands a caller had RsyncCommandBuilder build (SpecService)
  recent,               \* the latest start() call, in a run that follows the calls
  exec,                 \* transfers RsyncClient.sync is executing (SpecExecFair)
  world,                \* what the environment may do in this run, see Init
  last                  \* what the last step was

vars ==
  <<state, profile, lastError, retryCount, watcherSubscription,
    leakedSubscription, recoveryTimeout, process, procs, pendingEvents,
    debounceTimer, window, handlers, uncovered, starts, stops, killTimers,
    syncJob, service, startCommand, setup, builder, recent, exec, world,
    last>>

(***************************************************************************)
(* The program state as one record, so that a handler is the composition   *)
(* of the calls it makes.  `ev` collects the events fired so far in the    *)
(* step, `await` is the process a kill is waiting for (0: none), `ret`     *)
(* the value the last transition() returned, and `spawned` is false if the *)
(* step asked for more watch processes than the model distinguishes, and   *)
(* `fired` lists the batches the watcher emitted in the step.              *)
(***************************************************************************)
Cur ==
  [state |-> state, profile |-> profile, lastError |-> lastError,
   retryCount |-> retryCount, watcherSubscription |-> watcherSubscription,
   leakedSubscription |-> leakedSubscription,
   recoveryTimeout |-> recoveryTimeout, process |-> process, procs |-> procs,
   pendingEvents |-> pendingEvents, debounceTimer |-> debounceTimer,
   handlers |-> handlers, uncovered |-> uncovered, starts |-> starts,
   stops |-> stops, killTimers |-> killTimers, syncJob |-> syncJob,
   service |-> service, startCommand |-> startCommand, setup |-> setup,
   builder |-> builder, recent |-> recent, exec |-> exec,
   window |-> window, world |-> world,
   fired |-> <<>>, ev |-> <<>>, await |-> 0, ret |-> FALSE, spawned |-> TRUE, last |-> [op |-> "none"]]

Emit(s, e) == [s EXCEPT !.ev = Append(@, e)]

(***************************************************************************)
(* SyncEventBus: the events.                                               *)
(***************************************************************************)
StateChanged(old, new, p) ==
  [type |-> "stateChanged", oldState |-> old, newState |-> new, profile |-> p]
SyncStarted(job) == [type |-> "syncStarted", job |-> job]
SyncCompleted(job) == [type |-> "syncCompleted", job |-> job]
SyncFailed(job, msg) == [type |-> "syncFailed", job |-> job, error |-> msg]
FilesChanged(files) == [type |-> "filesChanged", files |-> files]
ErrorEvent(msg, rec) == [type |-> "error", message |-> msg, recoverable |-> rec]

(***************************************************************************)
(* SyncStateMachine.                                                       *)
(***************************************************************************)
isActive(s) == s.state # "idle" /\ s.state # "error"

canRetry(s) == s.retryCount < maxRetries

\* canTransitionTo that also lets a running job be abandoned for idle
canTransitionTo_SyncingToIdle(s, targetState) ==
  \/ targetState \in VALID_TRANSITIONS[s.state]
  \/ s.state = "syncing" /\ targetState = "idle"

canTransitionTo(s, targetState) == targetState \in VALID_TRANSITIONS[s.state]

\* transition that stores the context before it looks at the table
transition_ContextFirst(s, newState, ctxProfile, ctxError) ==
  LET s0 == [s EXCEPT !.profile = IF ctxProfile # None THEN ctxProfile ELSE @,
                      !.lastError = IF ctxError \notin {None, ""}
                                    THEN ctxError ELSE @]
  IN IF ~canTransitionTo(s, newState) THEN [s0 EXCEPT !.ret = FALSE]
     ELSE LET s1 == [s0 EXCEPT !.ret = TRUE, !.state = newState]
              s2 == IF newState = "watching" THEN [s1 EXCEPT !.retryCount = 0]
                    ELSE IF newState = "recovering"
                         THEN [s1 EXCEPT !.retryCount = @ + 1]
                    ELSE IF newState = "idle"
                         THEN [s1 EXCEPT !.profile = None, !.lastError = None,
                                         !.retryCount = 0]
                    ELSE s1
          IN Emit(s2, StateChanged(s.state, newState, s2.profile))


\* transition that keeps the retry counter on entry into watching
transition_KeepsCount(s, newState, ctxProfile, ctxError) ==
  IF ~canTransitionTo(s, newState) THEN [s EXCEPT !.ret = FALSE]
  ELSE
    LET s1 == [s EXCEPT !.ret = TRUE,
                        !.state = newState,
                        !.profile = IF ctxProfile # None THEN ctxProfile ELSE @,
                        !.lastError = IF ctxError \notin {None, ""}
                                      THEN ctxError ELSE @]
        s2 == IF newState = "recovering" THEN [s1 EXCEPT !.retryCount = @ + 1]
              ELSE IF newState = "idle"
                   THEN [s1 EXCEPT !.profile = None, !.lastError = None,
                                   !.retryCount = 0]
              ELSE s1
    IN Emit(s2, StateChanged(s.state, newState, s2.profile))

\* transition(newState, {profile, error}); None stands for an absent field.
transition(s, newState, ctxProfile, ctxError) ==
  IF ~canTransitionTo(s, newState) THEN [s EXCEPT !.ret = FALSE]
  ELSE
    LET p1 == IF ctxProfile # None THEN ctxProfile ELSE s.profile
        e1 == IF ctxError # None /\ ctxError # "" THEN ctxError ELSE s.lastError
        r1 == IF newState = "watching" THEN 0 ELSE s.retryCount
        r2 == IF newState = "recovering" THEN r1 + 1 ELSE r1
        toIdle == newState = "idle"
        s1 == [s EXCEPT !.ret = TRUE,
                        !.state = newState,
                        !.profile = IF toIdle THEN None ELSE p1,
                        !.lastError = IF toIdle THEN None ELSE e1,
                        !.retryCount = IF toIdle THEN 0 ELSE r2]
    IN Emit(s1, StateChanged(s.state, newState, s1.profile))

\* (a reset ends the session, and with it what the session still owed)
reset(s) ==
  LET s1 == [s EXCEPT !.state = "idle", !.profile = None,
                      !.lastError = None, !.retryCount = 0,
                      !.uncovered = {}]
  IN IF s.state # "idle" THEN Emit(s1, StateChanged(s.state, "idle", None)) ELSE s1

(***************************************************************************)
(* Watch processes.  A process is "running" after spawn, "signalled" once  *)
(* kill() has been sent to it (proc.killed), "exited" once its 'exit'      *)
(* event has been emitted ("crashed" if it was never signalled and the run *)
(* observes how processes end), and "none" again after its 'close' event.  *)
(***************************************************************************)
ProcIds == 1..MaxProcs

Alive(s, p) == s.procs[p] \in {"running", "signalled", "sigkilled"}

\* what a watch process prints in this model: a chunk of stdout data is a
\* sequence of lines "<event> <path>"
WatchLines == {<<[event |-> "CLOSE_WRITE,CLOSE", path |-> "/work/a"]>>}

EmptyMap == [x \in {} |-> None]

\* InotifyWatcher.mapEventType
mapEventType(inotifyEvent) ==
  CASE inotifyEvent \in {"CLOSE_WRITE,CLOSE", "MODIFY"} -> "modify"
    [] inotifyEvent \in {"CREATE", "CREATE,ISDIR"}      -> "create"
    [] inotifyEvent \in {"DELETE", "DELETE,ISDIR"}      -> "delete"
    [] inotifyEvent \in {"MOVED_FROM", "MOVED_TO"}      -> "move"
    [] OTHER                                            -> None

(***************************************************************************)
(* RsyncCommandBuilder.  The strings a command is built from are sequences *)
(* of characters, an argument vector is a sequence of such strings, and a  *)
(* ProfileConfig is the record of the fields the builder reads.            *)
(***************************************************************************)
sep == "/"

\* inputPath.endsWith(path.sep)
endsWith(str, ch) == str # <<>> /\ str[Len(str)] = ch

\* ensureTrailingSlash that appends the separator in every case
ensureTrailingSlash_Always(inputPath) == Append(inputPath, sep)

\* PathUtils.ensureTrailingSlash
ensureTrailingSlash(inputPath) ==
  IF endsWith(inputPath, sep) THEN inputPath ELSE Append(inputPath, sep)

\* the decimal digits of a number, as a template literal prints it
RECURSIVE numberToString(_)
numberToString(n) ==
  LET digit == <<"0", "1", "2", "3", "4", "5", "6", "7", "8", "9">>[(n % 10) + 1]
  IN IF n < 10 THEN <<digit>> ELSE Append(numberToString(n \div 10), digit)

\* profile.exclude as the arguments it adds: the `for` loop of buildBaseArgs
RECURSIVE excludeArgs(_)
excludeArgs(patterns) ==
  IF patterns = <<>> THEN <<>>
  ELSE <<<<"-", "-", "e", "x", "c", "l", "u", "d", "e">>, Head(patterns)>> \o excludeArgs(Tail(patterns))

buildBaseArgs(config) ==
  <<<<"-", "a">>, <<"-", "z">>, <<"-", "e">>,
    <<"s", "s", "h", " ", "-", "p", " ">>
      \o numberToString(config.sshPort)
      \o <<" ", "-", "o", " ", "S", "t", "r", "i", "c", "t", "H", "o", "s", "t", "K", "e", "y", "C", "h", "e", "c", "k", "i", "n", "g", "=", "a", "c", "c", "e", "p", "t", "-", "n", "e", "w">>>>
    \o excludeArgs(config.exclude)

buildRemoteDestination(config) ==
  config.remoteUser \o <<"@">> \o config.remoteHost \o <<":">>
    \o ensureTrailingSlash(config.remoteDir)

buildFullSync(config) ==
  [command |-> <<"r", "s", "y", "n", "c">>,
   args |-> buildBaseArgs(config)
              \o <<<<"-", "-", "d", "e", "l", "e", "t", "e">>,
                   ensureTrailingSlash(config.localDir),
                   buildRemoteDestination(config)>>]

\* buildIncrementalSync without the fallback for an empty file list
buildIncrementalSync_NoFallback(config, files) ==
  [command |-> <<"r", "s", "y", "n", "c">>,
   args |-> buildBaseArgs(config)
              \o <<<<"-", "-", "f", "i", "l", "e", "s", "-", "f", "r", "o", "m", "=", "-">>,
                   ensureTrailingSlash(config.localDir),
                   buildRemoteDestination(config)>>,
   cwd |-> config.localDir]

buildIncrementalSync(config, files) ==
  IF files = {} THEN buildFullSync(config)
  ELSE [command |-> <<"r", "s", "y", "n", "c">>,
        args |-> buildBaseArgs(config)
                   \o <<<<"-", "-", "f", "i", "l", "e", "s", "-", "f", "r", "o", "m", "=", "-">>,
                        ensureTrailingSlash(config.localDir),
                        buildRemoteDestination(config)>>,
        cwd |-> config.localDir]

(***************************************************************************)
(* RsyncClient: what sync() returns.                                       *)
(***************************************************************************)
\* RsyncClient.getExitCodeMeaning, for the exit codes of this model
getExitCodeMeaning(code) ==
  CASE code = 1  -> "Syntax or usage error"
    [] code = 12 -> "Error in rsync protocol data stream"
    [] code = 23 -> "Partial transfer due to error"
    [] code = 24 -> "Partial transfer due to vanished source files"
    [] code = 30 -> "Timeout in data send/receive"
    [] code = 35 -> "Timeout waiting for daemon connection"
    [] OTHER     -> None

\* stderr.trim(), for the texts of this model: none has white space around
\* it unless it is blank
trim(str) == IF Blank(str) THEN "" ELSE str

\* RsyncClient.parseErrors
parseErrors(stderr, exitCode) ==
  (IF trim(stderr) # "" THEN <<trim(stderr)>> ELSE <<>>)
    \o (IF getExitCodeMeaning(exitCode) # None
        THEN <<getExitCodeMeaning(exitCode)>> ELSE <<>>)

\* what RsyncClient.sync returns when rsync closed with exitCode and wrote
\* nothing to stderr (exitCode is not part of the SyncResult: it is kept
\* for the properties only)
syncResult(exitCode) ==
  IF exitCode = 0
  THEN [success |-> TRUE, errors |-> <<>>, exitCode |-> exitCode]
  ELSE [success |-> FALSE, errors |-> parseErrors("", exitCode),
        exitCode |-> exitCode]

\* RsyncError: the exit codes classified recoverable
RECOVERABLE_EXIT_CODES == {12, 23, 24, 30, 35}

(***************************************************************************)
(* RsyncClient.sync: the execution of one transfer.  A full transfer runs  *)
(* through ProcessUtils.execute with options.timeout = SYNC_TIMEOUT_MS, an *)
(* incremental one through executeIncrementalSync, which spawns rsync      *)
(* itself.  An execution is a record: the rsync process (proc: "running"   *)
(* or "closed"; nature: what it does on its own and when signalled;        *)
(* signals: those sent to it; procKilled: proc.killed), execute's local    *)
(* flag `killed`, its timeout timer and the grace timer the timeout arms,  *)
(* and the SyncResult sync() returned (result).                            *)
(***************************************************************************)
ExecSlots == 1..MaxExecs

NoExec == [phase |-> "idle"]

\* "exits": the process ends on its own; "hangs": it never ends on its own
\* but ends on SIGTERM; "stubborn": it ends on SIGKILL only
Natures == {"exits", "hangs", "stubborn"}

\* spawn, and for a full transfer the timeout of ProcessUtils.execute
execBegin(strategy, nature) ==
  [phase |-> "running", strategy |-> strategy, nature |-> nature,
   proc |-> "running", signals |-> {}, procKilled |-> FALSE,
   killed |-> FALSE,
   timeoutId |-> IF strategy = "full" THEN "armed" ELSE "none",
   graceTimer |-> "none", result |-> None]

\* the timeout callback of ProcessUtils.execute
execTimeout(e) ==
  [e EXCEPT !.killed = TRUE,
            !.signals = IF e.proc = "running" THEN @ \cup {"SIGTERM"} ELSE @,
            !.procKilled = @ \/ e.proc = "running",
            !.timeoutId = "fired",
            !.graceTimer = "armed"]

\* the grace callback: if (!proc.killed) proc.kill('SIGKILL')
execGrace(e) ==
  IF ~e.procKilled
  THEN [e EXCEPT !.signals = IF e.proc = "running" THEN @ \cup {"SIGKILL"} ELSE @,
                 !.procKilled = @ \/ e.proc = "running",
                 !.graceTimer = "fired"]
  ELSE [e EXCEPT !.graceTimer = "fired"]

\* the process may end now: on its own, or by a signal it does not survive
MayClose(e) ==
  /\ e.proc = "running"
  /\ \/ e.nature = "exits"
     \/ e.nature = "hangs" /\ e.signals # {}
     \/ "SIGKILL" \in e.signals

\* the 'close' listener (closed: the exit code, or the signal that ended
\* the process, in which case the code is null), and what sync() makes of
\* the outcome
execClose(e, closed) ==
  LET exitCode == IF "code" \in DOMAIN closed THEN closed.code ELSE 0 - 1
      res == IF e.killed
             THEN [success |-> FALSE, errors |-> <<"Process timed out">>,
                   exitCode |-> exitCode]
             ELSE syncResult(exitCode)
  IN [e EXCEPT !.proc = "closed", !.phase = "settled", !.result = res,
               !.timeoutId = IF @ = "armed" THEN "cleared" ELSE @]

(***************************************************************************)
(* SyncJob.  A Date is the number of the method call that took it          *)
(* (calls counts the calls made on the job); a method that throws leaves   *)
(* `threw` set for the step.                                               *)
(***************************************************************************)
\* the private fields after construction
NewJob ==
  [status |-> "pending", startedAt |-> None, completedAt |-> None,
   error |-> None, filesTransferred |-> 0, bytesTransferred |-> 0,
   calls |-> 0, threw |-> None]

Called(j) == [j EXCEPT !.calls = @ + 1, !.threw = None]

jobStart(j) ==
  IF j.status # "pending"
  THEN [Called(j) EXCEPT !.threw = "Cannot start job in " \o j.status \o " status"]
  ELSE [Called(j) EXCEPT !.status = "running", !.startedAt = j.calls + 1]

\* complete() without the status check
jobComplete_NoGuard(j, files, bytes) ==
  [Called(j) EXCEPT !.status = "completed", !.completedAt = j.calls + 1,
                    !.filesTransferred = files, !.bytesTransferred = bytes]

jobComplete(j, files, bytes) ==
  IF j.status # "running"
  THEN [Called(j) EXCEPT !.threw = "Cannot complete job in " \o j.status \o " status"]
  ELSE [Called(j) EXCEPT !.status = "completed", !.completedAt = j.calls + 1,
                         !.filesTransferred = files, !.bytesTransferred = bytes]

jobFail(j, error) ==
  IF j.status # "running"
  THEN [Called(j) EXCEPT !.threw = "Cannot fail job in " \o j.status \o " status"]
  ELSE [Called(j) EXCEPT !.status = "failed", !.completedAt = j.calls + 1,
                         !.error = error]

(***************************************************************************)
(* SyncService and its strategies.  A job is here the record of what the   *)
(* SyncJob constructor keeps (files as a set, strategy, and the profile as *)
(* toPlainObject() returns it); its life cycle is in syncJob.              *)
(***************************************************************************)
\* this.strategies, by name, in order of preference
strategies == <<"incremental", "full">>

\* IncrementalSyncStrategy.canHandle that looks at the file list only
canHandle_FilesOnly(name, job) ==
  IF name = "incremental" THEN job.files # {}
  ELSE job.files = {} \/ job.strategy = "full"

\* IncrementalSyncStrategy.canHandle and FullSyncStrategy.canHandle
canHandle(name, job) ==
  IF name = "incremental" THEN job.files # {} /\ job.strategy = "incremental"
  ELSE job.files = {} \/ job.strategy = "full"

\* the loop of selectStrategy from strategy k on, and its fallback
RECURSIVE selectFrom(_, _)
selectFrom(k, job) ==
  IF k > Len(strategies) THEN strategies[Len(strategies)]
  ELSE IF canHandle(strategies[k], job) THEN strategies[k]
  ELSE selectFrom(k + 1, job)

selectStrategy(job) == selectFrom(1, job)

\* the RsyncSyncJob that strategy.execute(job) hands to rsyncClient.sync
rsyncSyncJob(name, job) ==
  IF name = "incremental" /\ job.files # {}
  THEN [profile |-> job.profile, files |-> job.files,
        strategy |-> "incremental"]
  ELSE [profile |-> job.profile, files |-> {}, strategy |-> "full"]

\* RsyncClient.sync: which executor runs the job, and the command it builds
executorOf(rjob) ==
  IF rjob.strategy = "incremental" /\ rjob.files # {}
  THEN "incremental" ELSE "full"

commandOf(rjob) ==
  IF executorOf(rjob) = "incremental"
  THEN buildIncrementalSync(rjob.profile, rjob.files)
  ELSE buildFullSync(rjob.profile)

\* parseFilesTransferred / parseBytesTransferred, for the outputs of this model
StatsOutput == "Number of regular files transferred: 3"
parseFilesTransferred(stdout) == IF stdout = StatsOutput THEN 3 ELSE 0
parseBytesTransferred(stdout) == 0

\* RsyncClient.sync after the await: the executor resolved on 'close' with
\* exitCode (code ?? -1), or rejected (a timeout of ProcessUtils.execute,
\* or the 'error' event of a process that could not be spawned)
rsyncSettle(outcome) ==
  IF outcome.kind = "close"
  THEN IF outcome.exitCode = 0
       THEN [success |-> TRUE,
             filesTransferred |-> parseFilesTransferred(outcome.stdout),
             bytesTransferred |-> parseBytesTransferred(outcome.stdout),
             errors |-> <<>>]
       ELSE [success |-> FALSE, filesTransferred |-> 0, bytesTransferred |-> 0,
             errors |-> parseErrors(outcome.stderr, outcome.exitCode)]
  ELSE [success |-> FALSE, filesTransferred |-> 0, bytesTransferred |-> 0,
        errors |-> <<outcome.message>>]

\* SyncService.sync up to `await strategy.execute(job)`
serviceSync(s, job) ==
  LET selected == selectStrategy(job)
      started == jobStart(NewJob)
      rjob == rsyncSyncJob(selected, job)
  IN [s EXCEPT !.syncJob = started,
               !.service = [pc |-> "executing", job |-> job,
                            selected |-> selected,
                            executor |-> executorOf(rjob),
                            command |-> commandOf(rjob)]]

\* SyncService.sync after the await: the try block, and its catch if
\* complete() or fail() threw
serviceSettle(s, outcome) ==
  LET result == rsyncSettle(outcome)
      j1 == IF result.success
            THEN jobComplete(s.syncJob, result.filesTransferred,
                             result.bytesTransferred)
            ELSE jobFail(s.syncJob, Join(result.errors))
      j2 == IF j1.threw # None THEN jobFail(j1, j1.threw) ELSE j1
  IN [s EXCEPT !.syncJob = j2,
               !.service = [@ EXCEPT !.pc = "returned"]
                           @@ [result |-> IF j1.threw # None
                                          THEN [success |-> FALSE,
                                                filesTransferred |-> 0,
                                                bytesTransferred |-> 0,
                                                errors |-> <<j1.threw>>]
                                          ELSE result,
                               threw |-> j2.threw]]

(***************************************************************************)
(* SyncOrchestrator.handleFileChanges and scheduleRecovery.                *)
(***************************************************************************)
clearRecoveryTimeout(s) == [s EXCEPT !.recoveryTimeout = "none"]

\* scheduleRecovery that arms no timer
scheduleRecovery_NoTimer(s) ==
  transition(clearRecoveryTimeout(s), "recovering", None, None)

\* the timer is armed whether or not the transition was accepted
scheduleRecovery(s) ==
  LET s1 == clearRecoveryTimeout(s)
      s2 == transition(s1, "recovering", None, None)
  IN [s2 EXCEPT !.recoveryTimeout = "pending"]

\* the catch block of handleFileChanges
handleSyncFailure(s, message) ==
  LET s1 == transition(s, "error", None, message) IN
  IF canRetry(s1) THEN scheduleRecovery(s1)
  ELSE Emit(s1, ErrorEvent("Sync failed after " \o ToString(s1.retryCount)
                           \o " retries: " \o message, FALSE))

\* createIncrementalSyncJob that takes one path of the batch only
createIncrementalSyncJob_OnePath(p, files) ==
  [strategy |-> "incremental",
   files |-> IF files = {} THEN {} ELSE {CHOOSE f \in files : TRUE},
   profile |-> p.alias]

\* SyncService.createIncrementalSyncJob / createFullSyncJob
createIncrementalSyncJob(p, files) ==
  [strategy |-> "incremental", files |-> files, profile |-> p.alias]
createFullSyncJob(p) ==
  [strategy |-> "full", files |-> {}, profile |-> p.alias]

\* handleFileChanges without its guard on the state
handleFileChanges_AnyState(s, events) ==
  LET files == {e.path : e \in events}
      s1 == Emit(s, FilesChanged(files))
      s2 == transition(s1, "syncing", None, None)
  IN IF s2.profile = None THEN handleSyncFailure(s2, "No active profile")
     ELSE LET job == createIncrementalSyncJob(ProfileOf(s2.profile), files)
              s3 == Emit(s2, SyncStarted(job))
          IN [s3 EXCEPT !.handlers = @ (+) SetToBag({job}),
                        !.uncovered = @ \ files]

\* handleFileChanges up to `await this.syncService.sync(job)`
handleFileChanges(s, events) ==
  IF s.state # "watching" THEN s
  ELSE
    LET files == {e.path : e \in events}
        s1 == Emit(s, FilesChanged(files))
        s2 == transition(s1, "syncing", None, None)
    IN IF s2.profile = None THEN handleSyncFailure(s2, "No active profile")
       ELSE LET job == createIncrementalSyncJob(ProfileOf(s2.profile), files)
                s3 == Emit(s2, SyncStarted(job))
            IN [s3 EXCEPT !.handlers = @ (+) SetToBag({job}),
                          !.uncovered = @ \ files]

\* handleFileChanges after the await: the job ended with `result`
handleSyncResult(s, job, result) ==
  IF result.success
  THEN transition(Emit(s, SyncCompleted(job)), "watching", None, None)
  ELSE handleSyncFailure(Emit(s, SyncFailed(job, Join(result.errors))),
                         Join(result.errors))

\* the recovery callback that finds the recovery failed and schedules the
\* next one without asking canRetry
recoveryCallback_Reschedules(s) ==
  IF s.profile # None
  THEN scheduleRecovery(transition(s, "error", None, "Recovery failed"))
  ELSE s

\* the recovery timer's callback
recoveryCallback(s) ==
  IF s.profile # None THEN transition(s, "watching", None, None) ELSE s

(***************************************************************************)
(* GlobMatcher.  A path is matched on its characters.                      *)
(***************************************************************************)
UpperCase == <<"A", "B", "C", "D", "E", "F", "G", "H", "I", "J", "K", "L", "M", "N", "O", "P", "Q", "R", "S", "T", "U", "V", "W", "X", "Y", "Z">>
LowerCase == <<"a", "b", "c", "d", "e", "f", "g", "h", "i", "j", "k", "l", "m", "n", "o", "p", "q", "r", "s", "t", "u", "v", "w", "x", "y", "z">>

\* message.toLowerCase()
toLowerCase(str) ==
  [k \in 1..Len(str) |->
     IF \E c \in 1..Len(UpperCase) : UpperCase[c] = str[k]
     THEN LowerCase[CHOOSE c \in 1..Len(UpperCase) : UpperCase[c] = str[k]]
     ELSE str[k]]

\* str.includes(pattern)
includes(str, pattern) ==
  \E k \in 0..(Len(str) - Len(pattern)) :
    SubSeq(str, k + 1, k + Len(pattern)) = pattern

\* the characters of the paths a watch process prints in this model
PathText(path) ==
  CASE path = "/work/a" -> <<"/", "w", "o", "r", "k", "/", "a">>
    [] path = "/work/b" -> <<"/", "w", "o", "r", "k", "/", "b">>
    [] path = "/work/.git/config" -> <<"/", "w", "o", "r", "k", "/", ".", "g", "i", "t", "/", "c", "o", "n", "f", "i", "g">>
    [] path = "/work/.gitignore" -> <<"/", "w", "o", "r", "k", "/", ".", "g", "i", "t", "i", "g", "n", "o", "r", "e">>
    [] path = "/work/x.log" -> <<"/", "w", "o", "r", "k", "/", "x", ".", "l", "o", "g">>
    [] path = "/work/X.LOG" -> <<"/", "w", "o", "r", "k", "/", "X", ".", "L", "O", "G">>

\* path.replace(/\\/g, '/')
normalizeSeparators(str) ==
  [k \in 1..Len(str) |-> IF str[k] = "\\" THEN "/" ELSE str[k]]

\* the expression patternToRegex builds from a pattern, matched against the
\* whole of text: `**` is `.*`, `*` is `[^/]*`, `?` is `[^/]`, every other
\* character is itself, letters in either case (flag i)
RECURSIVE globMatch(_, _)
globMatch(pattern, text) ==
  IF pattern = <<>> THEN text = <<>>
  ELSE IF Len(pattern) >= 2 /\ pattern[1] = "*" /\ pattern[2] = "*"
  THEN \E k \in 0..Len(text) :
         globMatch(SubSeq(pattern, 3, Len(pattern)), SubSeq(text, k + 1, Len(text)))
  ELSE IF pattern[1] = "*"
  THEN \E k \in 0..Len(text) :
         /\ \A m \in 1..k : text[m] # "/"
         /\ globMatch(Tail(pattern), SubSeq(text, k + 1, Len(text)))
  ELSE IF pattern[1] = "?"
  THEN text # <<>> /\ text[1] # "/" /\ globMatch(Tail(pattern), Tail(text))
  ELSE /\ text # <<>>
       /\ toLowerCase(<<text[1]>>) = toLowerCase(<<pattern[1]>>)
       /\ globMatch(Tail(pattern), Tail(text))

\* new RegExp(`(^|/)${regex}($|/)`, 'i').test(path)
patternTest(pattern, path) ==
  \E i \in 1..(Len(path) + 1), j \in 0..Len(path) :
    /\ i <= j + 1
    /\ i = 1 \/ path[i - 1] = "/"
    /\ j = Len(path) \/ path[j + 1] = "/"
    /\ globMatch(normalizeSeparators(pattern), SubSeq(path, i, j))

\* path.split('/'), as a set
segments(path) ==
  {SubSeq(path, ij[1], ij[2]) :
     ij \in {ij \in (1..(Len(path) + 1)) \X (0..Len(path)) :
               /\ ij[1] <= ij[2] + 1
               /\ ij[1] = 1 \/ path[ij[1] - 1] = "/"
               /\ ij[2] = Len(path) \/ path[ij[2] + 1] = "/"
               /\ \A k \in ij[1]..ij[2] : path[k] # "/"}}

isInsideExcludedDirectory(path, pattern) ==
  /\ ~includes(pattern, <<"/">>)
  /\ ~includes(pattern, <<"*">>)
  /\ pattern \in segments(path)

\* GlobMatcher.isExcluded
isExcluded(patterns, path) ==
  LET normalizedPath == normalizeSeparators(path) IN
  \E k \in 1..Len(patterns) :
    \/ patternTest(patterns[k], normalizedPath)
    \/ isInsideExcludedDirectory(normalizedPath, patterns[k])

(***************************************************************************)
(* InotifyWatcher.                                                         *)
(***************************************************************************)
\* _onDidChange.fire(events): each listener calls handleFileChanges, and a
\* second call in the same turn finds the state changed by the first
\* (uncovered: the paths of a batch that handleFileChanges ignored because
\* a job was running, until a later job is created for them)
fire(s, events) ==
  IF s.watcherSubscription \/ s.leakedSubscription
  THEN handleFileChanges(
         [s EXCEPT !.uncovered =
                     IF s.state = "syncing"
                     THEN @ \cup {e.path : e \in events} ELSE @],
         events)
  ELSE s

\* Array.from(this.pendingEvents.values()), as a set
Values(map) == {map[x] : x \in DOMAIN map}

flushEvents(s) ==
  IF s.pendingEvents = EmptyMap THEN s
  ELSE fire([s EXCEPT !.pendingEvents = EmptyMap, !.window = <<>>,
                      !.fired = Append(@, Values(s.pendingEvents))],
            Values(s.pendingEvents))

\* this.debounceTimer is the timer armed last; clearTimeout disarms it
clearTimeout(timers) ==
  IF timers = {} THEN timers
  ELSE timers \ {CHOOSE g \in timers : \A h \in timers : h <= g}

\* pendingEvents.set(event.path, event), then the timer is cleared and armed
\* anew.  (window: the accepted events in the order they came, kept while
\* the run tracks it; a timer is named by the length of the window at the
\* time it was armed)
\* queueEvent that keeps the event a path already has
queueEvent_KeepsFirst(s, event) ==
  LET w == IF s.world.window > 0 THEN Append(s.window, event) ELSE s.window
  IN [s EXCEPT !.pendingEvents =
                 [x \in DOMAIN @ \cup {event.path} |->
                    IF x \in DOMAIN @ THEN @[x] ELSE event],
               !.window = w,
               !.debounceTimer = clearTimeout(@) \cup {Len(w)}]

\* queueEvent that arms a new timer without clearing the one pending
queueEvent_NoClear(s, event) ==
  LET w == IF s.world.window > 0 THEN Append(s.window, event) ELSE s.window
  IN [s EXCEPT !.pendingEvents =
                 [x \in DOMAIN @ \cup {event.path} |->
                    IF x = event.path THEN event ELSE @[x]],
               !.window = w,
               !.debounceTimer = @ \cup {Len(w)}]

queueEvent(s, event) ==
  LET w == IF s.world.window > 0 THEN Append(s.window, event) ELSE s.window
  IN [s EXCEPT !.pendingEvents =
                 [x \in DOMAIN @ \cup {event.path} |->
                    IF x = event.path THEN event ELSE @[x]],
               !.window = w,
               !.debounceTimer = clearTimeout(@) \cup {Len(w)}]

\* config.excludePatterns of the running watcher: the patterns of the run
excludePatterns(s) ==
  IF "exclude" \in DOMAIN s.world THEN s.world.exclude ELSE <<>>

\* handleEvent that does not ask the matcher
handleEvent_NoExclusion(s, line) ==
  IF line.path = "" THEN s
  ELSE IF mapEventType(line.event) = None THEN s
  ELSE queueEvent(s, [type |-> mapEventType(line.event), path |-> line.path])

\* handleEvent; a line without a path (path "") does not match
\* /^(\S+)\s+(.+)$/
handleEvent(s, line) ==
  IF line.path = "" THEN s
  ELSE IF isExcluded(excludePatterns(s), PathText(line.path)) THEN s
  ELSE IF mapEventType(line.event) = None THEN s
  ELSE queueEvent(s, [type |-> mapEventType(line.event), path |-> line.path])

\* the stdout 'data' listener: handleEvent for each line of the chunk
RECURSIVE handleData(_, _)
handleData(s, lines) ==
  IF lines = <<>> THEN s
  ELSE handleData(handleEvent(s, Head(lines)), Tail(lines))

\* InotifyWatcher.stop after `await ProcessUtils.killProcess(...)`
watcherStopEnd(s) ==
  [s EXCEPT !.process = 0, !.pendingEvents = EmptyMap, !.window = <<>>]

\* ProcessUtils.killProcess resolves at once for a process that was already
\* signalled or has exited; otherwise it sends SIGTERM and waits for 'exit'
killResolvesAtOnce(s, p) == s.procs[p] \in {"signalled", "exited", "crashed"}

\* ProcessUtils.killProcess past the early return: the listeners, SIGTERM
\* (proc.killed from here on) and the grace timer.  killTimers holds the
\* calls that are unresolved with the timer armed, in a run that follows
\* these timers; a timer whose promise is resolved does nothing when it
\* fires and is left out.
killProcess(s, p) ==
  [s EXCEPT !.procs[p] = "signalled",
            !.killTimers = IF "kill.grace" \in s.world.observe
                           THEN @ \cup {p} ELSE @]

\* proc.killed: a signal was sent to the process
procKilled(s, p) == s.procs[p] \in {"signalled", "sigkilled"}

\* the grace callback of killProcess, for a call that is unresolved:
\* if (!resolved && !proc.killed) proc.kill('SIGKILL')
killGrace(s, p) ==
  LET s1 == [s EXCEPT !.killTimers = @ \ {p}] IN
  IF ~procKilled(s1, p) THEN [s1 EXCEPT !.procs[p] = "sigkilled"] ELSE s1

\* InotifyWatcher.stop up to the await; s.await names the process waited for
watcherStopBegin(s) ==
  LET s1 == flushEvents([s EXCEPT !.debounceTimer = clearTimeout(@)]) IN
  IF s1.process = 0 THEN watcherStopEnd(s1)
  ELSE IF killResolvesAtOnce(s1, s1.process) THEN watcherStopEnd(s1)
  ELSE [killProcess(s1, s1.process) EXCEPT !.await = s1.process]

FreeProc(s) == CHOOSE p \in ProcIds : s.procs[p] = "none"

\* InotifyWatcher.start from the spawn on
watcherSpawn(s) ==
  IF \A p \in ProcIds : s.procs[p] # "none" THEN [s EXCEPT !.spawned = FALSE]
  ELSE [s EXCEPT !.process = FreeProc(s), !.procs[FreeProc(s)] = "running"]

(***************************************************************************)
(* SyncOrchestrator.stop.                                                  *)
(***************************************************************************)
\* stop() that leaves the recovery timer armed
stopBegin_KeepsTimer(s) ==
  watcherStopBegin([s EXCEPT !.watcherSubscription = FALSE])

\* stop() up to `await this.watcher.stop()`
stopBegin(s) ==
  watcherStopBegin([clearRecoveryTimeout(s) EXCEPT !.watcherSubscription = FALSE])

\* stop() after the await inside watcher.stop()
stopEnd(s) == reset(watcherStopEnd(s))

(***************************************************************************)
(* SyncOrchestrator.start.  A call in progress is a record: where it is    *)
(* (pc), its profile, the process whose exit it awaits, and what it has    *)
(* seen since it began: the states the machine entered (visit), the        *)
(* sync-completed and full sync-started events, and the external           *)
(* processes the call itself launched.                                     *)
(***************************************************************************)
NoCall == [pc |-> "free"]

\* `last` after a step no property looks at
Quiet == [op |-> "step"]

NewCall(alias) ==
  [pc |-> "begin", profile |-> alias, awaiting |-> 0, visit |-> "idle",
   completed |-> 0, fullStarted |-> 0, launched |-> {}]

\* the start() calls that can be in progress at once in this run
CallLimit == IF "calls" \in DOMAIN world THEN world.calls ELSE MaxStartCalls

Slots == 1..CallLimit

Cap2(n) == IF n >= 2 THEN 2 ELSE n

\* what a call in progress sees of one event
ObserveEvent(c, e) ==
  IF c.pc = "free" \/ c.visit = "pending" THEN c
  ELSE IF e.type = "stateChanged" THEN
    [c EXCEPT !.visit =
       CASE @ = "idle" /\ e.newState = "idle"                 -> "idle"
         [] @ = "idle" /\ e.newState = "initializing"         -> "initializing"
         [] @ = "initializing" /\ e.newState = "connecting"   -> "connecting"
         [] @ = "connecting" /\ e.newState = "watching"       -> "watching"
         [] OTHER                                             -> "deviated"]
  ELSE IF e.type = "syncCompleted" THEN [c EXCEPT !.completed = Cap2(@ + 1)]
  ELSE IF e.type = "syncStarted" /\ e.job.strategy = "full"
    THEN [c EXCEPT !.fullStarted = Cap2(@ + 1)]
  ELSE c

RECURSIVE Observe(_, _)
Observe(c, ev) ==
  IF ev = <<>> THEN c ELSE Observe(ObserveEvent(c, Head(ev)), Tail(ev))

\* the step's result becomes the next state; no step leaves more transfers
\* awaited at once, more watch processes alive, or more events in a tracked
\* window, than the run allows
Apply(r) ==
  /\ BagCardinality(r.handlers) <= world.handlers
  /\ Len(r.window) <= world.window
  /\ r.spawned
  /\ Cardinality({p \in ProcIds : Alive(r, p)}) <= world.procs
  /\ world' = world
  /\ state' = r.state
  /\ profile' = r.profile
  /\ lastError' = r.lastError
  /\ retryCount' = r.retryCount
  /\ watcherSubscription' = r.watcherSubscription
  /\ leakedSubscription' = r.leakedSubscription
  /\ recoveryTimeout' = r.recoveryTimeout
  /\ process' = r.process
  /\ procs' = r.procs
  /\ pendingEvents' = r.pendingEvents
  /\ debounceTimer' = r.debounceTimer
  /\ window' = r.window
  /\ handlers' = r.handlers
  /\ uncovered' = r.uncovered
  /\ starts' = [i \in Slots |-> Observe(r.starts[i], r.ev)]
  /\ stops' = r.stops
  /\ killTimers' = r.killTimers
  /\ syncJob' = r.syncJob
  /\ service' = r.service
  /\ startCommand' = r.startCommand
  /\ setup' = r.setup
  /\ builder' = r.builder
  /\ recent' = r.recent
  /\ exec' = r.exec
  /\ last' = LET l1 == IF "call" \in DOMAIN r.last
                       THEN [r.last EXCEPT !.call = Observe(@, r.ev)]
                       ELSE r.last
             IN IF "ev" \in DOMAIN l1 THEN [l1 EXCEPT !.ev = r.ev] ELSE l1

\* the catch block of start(): the call ends, rethrowing the error
startFail(s, i, message) ==
  LET s1 == transition(s, "error", None, message)
      s2 == Emit(s1, ErrorEvent(message, TRUE))
  IN [s2 EXCEPT !.starts[i] = NoCall,
                !.last = [op |-> "start.failed", ev |-> <<>>, error |-> message,
                          call |-> s.starts[i],
                          timerBefore |-> recoveryTimeout]]

\* start() from `transition('initializing')` to the first file-system await
startInit(s, i) ==
  LET p == ProfileOf(s.starts[i].profile)
      s1 == transition(s, "initializing", p.alias, None)
  IN IF validateRequiredFields(p) # <<>>
     THEN startFail(s1, i, Join(validateRequiredFields(p)))
     ELSE [s1 EXCEPT !.starts[i].pc = "validating",
                     !.last = Quiet]

\* The start() calls made so far, in a run that follows the calls
callsMade(s) == s.recent.calls

\* start() from its first line
startBegin(s, i, p) ==
  LET s0 == [s EXCEPT !.starts[i] = NewCall(p.alias),
                      !.recent = IF "start.call" \in s.world.observe
                                 THEN [alias |-> p.alias,
                                       calls |-> callsMade(s) + 1]
                                 ELSE @] IN
  IF isActive(s0) \/ s0.state = "error"
  THEN LET s1 == stopBegin(s0) IN
       IF s1.await # 0
       THEN [s1 EXCEPT !.starts[i].pc = "stopping",
                       !.starts[i].awaiting = s1.await,
                       !.starts[i].visit = "pending",
                       !.last = Quiet]
       ELSE startInit(reset(s1), i)
  ELSE startInit(s0, i)

\* start() after the await inside its stop()
startStopped(s, i) ==
  startInit(stopEnd([s EXCEPT !.starts[i].awaiting = 0,
                              !.starts[i].visit = "idle"]), i)

\* start() that asks for rsync before it looks at what validate() returned
startValidated_ToolsFirst(s, i) ==
  LET p == ProfileOf(s.starts[i].profile)
      s1 == [s EXCEPT !.starts[i].launched = @ \cup {"which"}]
  IN IF validate(p) # <<>> THEN startFail(s1, i, Join(validate(p)))
     ELSE [s1 EXCEPT !.starts[i].pc = "which_rsync", !.last = Quiet]

\* validate() returned: on success checkPrerequisites asks for rsync
startValidated(s, i) ==
  LET p == ProfileOf(s.starts[i].profile) IN
  IF validate(p) # <<>> THEN startFail(s, i, Join(validate(p)))
  ELSE [s EXCEPT !.starts[i].pc = "which_rsync",
                 !.starts[i].launched = @ \cup {"which"},
                 !.last = Quiet]

\* commandExists('rsync') returned
startRsyncChecked(s, i, found) ==
  IF ~found THEN startFail(s, i, "rsync is not installed")
  ELSE [s EXCEPT !.starts[i].pc = "which_inotifywait",
                 !.last = Quiet]

\* commandExists('inotifywait') returned: on success the connection test
startInotifyChecked(s, i, found) ==
  IF ~found
  THEN startFail(s, i, "inotifywait is not installed (install inotify-tools)")
  ELSE LET s1 == transition(s, "connecting", None, None) IN
       [s1 EXCEPT !.starts[i].pc = "testConnection",
                  !.starts[i].launched = @ \cup {"ssh"},
                  !.last = Quiet]

\* testConnection returned: on success the initial full sync job starts
startConnected(s, i, result) ==
  IF ~result.success
  THEN startFail(s, i, "SSH connection failed: " \o result.error)
  ELSE LET job == createFullSyncJob(ProfileOf(s.starts[i].profile))
           s1 == Emit(s, SyncStarted(job))
       IN [s1 EXCEPT !.starts[i].pc = "sync",
                     !.starts[i].launched = @ \cup {"rsync"},
                     !.last = Quiet]

\* startWatcher after watcher.start(): subscribe; the call returns
startSubscribe(s, i) ==
  [s EXCEPT !.leakedSubscription = @ \/ s.watcherSubscription,
            !.watcherSubscription = TRUE,
            !.starts[i] = NoCall,
            !.last = [op |-> "start.ok", call |-> s.starts[i]]]

\* the initial sync returned: on success `watching` and startWatcher
startSynced(s, i, result) ==
  IF ~result.success
  THEN startFail(s, i, "Initial sync failed: " \o Join(result.errors))
  ELSE
    LET job == createFullSyncJob(ProfileOf(s.starts[i].profile))
        s1 == transition(Emit(s, SyncCompleted(job)), "watching", None, None)
        s2 == IF s1.process # 0 THEN watcherStopBegin(s1) ELSE s1
    IN IF s2.await # 0
       THEN [s2 EXCEPT !.starts[i].pc = "watcher_stopping",
                       !.starts[i].awaiting = s2.await,
                       !.last = Quiet]
       ELSE startSubscribe(
              [watcherSpawn(s2) EXCEPT !.starts[i].launched = @ \cup {"inotifywait"}], i)

\* watcher.start() after the await inside its stop()
startWatcherStopped(s, i) ==
  startSubscribe(
    [watcherSpawn(watcherStopEnd(s))
       EXCEPT !.starts[i].awaiting = 0,
              !.starts[i].launched = @ \cup {"inotifywait"}], i)

(***************************************************************************)
(* StartWatchCommand.startWithConfig, the caller of start(), with the      *)
(* CredentialManager.  A call is a record: where it is (pc), the password  *)
(* in the secret storage (secret, None: none), the calls it made of        *)
(* orchestrator.start (startCalls) and of setPasswordCallback (passwords), *)
(* the message of the error the catch block holds (message), what the      *)
(* prompt returned (prompted) and how the call ended (outcome, thrown).    *)
(* Messages are sequences of characters.                                   *)
(***************************************************************************)
authErrorPatterns ==
  {<<"p", "e", "r", "m", "i", "s", "s", "i", "o", "n", " ", "d", "e", "n", "i", "e", "d">>,
   <<"a", "u", "t", "h", "e", "n", "t", "i", "c", "a", "t", "i", "o", "n", " ", "f", "a", "i", "l", "e", "d">>,
   <<"a", "l", "l", " ", "c", "o", "n", "f", "i", "g", "u", "r", "e", "d", " ", "a", "u", "t", "h", "e", "n", "t", "i", "c", "a", "t", "i", "o", "n", " ", "m", "e", "t", "h", "o", "d", "s", " ", "f", "a", "i", "l", "e", "d">>,
   <<"h", "o", "s", "t", " ", "k", "e", "y", " ", "v", "e", "r", "i", "f", "i", "c", "a", "t", "i", "o", "n", " ", "f", "a", "i", "l", "e", "d">>,
   <<"n", "o", " ", "m", "a", "t", "c", "h", "i", "n", "g", " ", "h", "o", "s", "t", " ", "k", "e", "y">>,
   <<"c", "o", "n", "n", "e", "c", "t", "i", "o", "n", " ", "r", "e", "f", "u", "s", "e", "d">>,
   <<"p", "u", "b", "l", "i", "c", "k", "e", "y">>,
   <<"k", "e", "y", "b", "o", "a", "r", "d", "-", "i", "n", "t", "e", "r", "a", "c", "t", "i", "v", "e">>}

isAuthError(message) ==
  \E pattern \in authErrorPatterns : includes(toLowerCase(message), pattern)

\* startWithConfig up to the first `await this.orchestrator.start(...)`
\* (valid: what configProvider.validate returned; credentials: a
\* credential manager and a password callback were given)
commandBegin(valid, credentials, secret) ==
  IF ~valid
  THEN [pc |-> "returned", credentials |-> credentials, secret |-> secret,
        startCalls |-> 0, passwords |-> <<>>, prompted |-> "unasked",
        outcome |-> "invalid", message |-> <<>>, thrown |-> <<>>]
  ELSE [pc |-> "start", credentials |-> credentials, secret |-> secret,
        startCalls |-> 1,
        passwords |-> IF credentials /\ secret # None THEN <<secret>> ELSE <<>>,
        prompted |-> "unasked", outcome |-> None, message |-> <<>>,
        thrown |-> <<>>]

\* the first start() settled (it returned, or threw an error with a
\* message): the catch block up to the prompt
commandStarted(c, settled) ==
  IF settled.ok THEN [c EXCEPT !.pc = "returned", !.outcome = "started"]
  ELSE IF isAuthError(settled.message) /\ c.credentials
  THEN [c EXCEPT !.pc = "prompt", !.message = settled.message]
  ELSE [c EXCEPT !.pc = "returned", !.outcome = "threw",
                 !.thrown = settled.message]

\* CredentialManager.promptForPassword (answer: what the input box
\* returned, None: undefined; save: the operator chose to save); prompted
\* is what it returns (None: null)
promptForPassword(c, answer, save) ==
  IF answer = None THEN [c EXCEPT !.prompted = None]
  ELSE IF answer # "" /\ save THEN [c EXCEPT !.prompted = answer, !.secret = answer]
  ELSE [c EXCEPT !.prompted = answer]

AuthenticationCancelled ==
  <<"A", "u", "t", "h", "e", "n", "t", "i", "c", "a", "t", "i", "o", "n", " ", "c", "a", "n", "c", "e", "l", "l", "e", "d", " ", "b", "y", " ", "u", "s", "e", "r">>

\* the catch block with a retry that does not look at the password
commandPrompted_AlwaysRetries(c, answer, save) ==
  LET c1 == promptForPassword(c, answer, save) IN
  [c1 EXCEPT !.passwords = Append(@, c1.prompted),
             !.startCalls = @ + 1, !.pc = "retry"]

\* the catch block from the prompt to the second `await start(...)`
commandPrompted(c, answer, save) ==
  LET c1 == promptForPassword(c, answer, save) IN
  IF c1.prompted \notin {None, ""}
  THEN [c1 EXCEPT !.passwords = Append(@, c1.prompted),
                  !.startCalls = @ + 1, !.pc = "retry"]
  ELSE [c1 EXCEPT !.pc = "returned", !.outcome = "threw",
                  !.thrown = AuthenticationCancelled]

\* the second start() settled
commandRetried(c, settled) ==
  IF settled.ok THEN [c EXCEPT !.pc = "returned", !.outcome = "started"]
  ELSE [c EXCEPT !.pc = "returned", !.outcome = "threw",
                 !.thrown = settled.message]

(***************************************************************************)
(* SSHClient.validateSetup and SSH2Client.validateSetup (the same code in  *)
(* both).  A call is a record: where it is (pc), its three flags, its      *)
(* errors, and the checks it ran with what each returned (ran).  The       *)
(* output of a remote command is a sequence of characters.                 *)
(***************************************************************************)
WhiteSpace == {" ", "\n", "\t"}

\* String.prototype.trim
RECURSIVE trimStart(_)
trimStart(str) ==
  IF str # <<>> /\ Head(str) \in WhiteSpace THEN trimStart(Tail(str)) ELSE str

RECURSIVE trimEnd(_)
trimEnd(str) ==
  IF str # <<>> /\ str[Len(str)] \in WhiteSpace
  THEN trimEnd(SubSeq(str, 1, Len(str) - 1)) ELSE str

trimOutput(str) == trimEnd(trimStart(str))

ExistsText == <<"e", "x", "i", "s", "t", "s">>
WritableText == <<"w", "r", "i", "t", "a", "b", "l", "e">>

\* validateSetup up to `await this.testConnection(config)`
setupBegin(client, remoteDir) ==
  [pc |-> "testConnection", client |-> client, remoteDir |-> remoteDir,
   connected |-> FALSE, remoteDirectoryExists |-> FALSE,
   hasWritePermission |-> FALSE, errors |-> <<>>, ran |-> <<>>]

\* testConnection returned
setupConnected(v, result) ==
  LET v1 == [v EXCEPT !.ran = Append(@, [check |-> "connection",
                                        result |-> result])] IN
  IF ~result.success
  THEN [v1 EXCEPT !.errors = Append(@, "SSH connection failed: " \o result.error),
                  !.pc = "returned"]
  ELSE [v1 EXCEPT !.connected = TRUE, !.pc = "dirCheck"]

\* the directory check that goes on to the write check in every case
setupDirChecked_NoShortCircuit(v, result) ==
  LET v1 == [v EXCEPT !.ran = Append(@, [check |-> "directory",
                                        result |-> result])]
      v2 == IF result.success /\ trimOutput(result.stdout) = ExistsText
            THEN [v1 EXCEPT !.remoteDirectoryExists = TRUE]
            ELSE [v1 EXCEPT !.errors =
                    Append(@, "Remote directory does not exist: " \o v.remoteDir)]
  IN [v2 EXCEPT !.pc = "writeCheck"]

\* execute(config, `test -d ... && echo exists`) returned
setupDirChecked(v, result) ==
  LET v1 == [v EXCEPT !.ran = Append(@, [check |-> "directory",
                                        result |-> result])]
      v2 == IF result.success /\ trimOutput(result.stdout) = ExistsText
            THEN [v1 EXCEPT !.remoteDirectoryExists = TRUE]
            ELSE [v1 EXCEPT !.errors =
                    Append(@, "Remote directory does not exist: " \o v.remoteDir)]
  IN IF v2.remoteDirectoryExists THEN [v2 EXCEPT !.pc = "writeCheck"]
     ELSE [v2 EXCEPT !.pc = "returned"]

\* execute(config, `touch ... && rm ... && echo writable`) returned
setupWriteChecked(v, result) ==
  LET v1 == [v EXCEPT !.ran = Append(@, [check |-> "write",
                                        result |-> result])]
  IN IF result.success /\ trimOutput(result.stdout) = WritableText
     THEN [v1 EXCEPT !.hasWritePermission = TRUE, !.pc = "returned"]
     ELSE [v1 EXCEPT !.errors =
                       Append(@, "No write permission on remote directory: "
                                   \o v.remoteDir),
                     !.pc = "returned"]

(***************************************************************************)
(* Inputs.                                                                 *)
(***************************************************************************)
StartProfiles ==
  {ProfileAlpha, ProfileNoHost, ProfilePortLow, ProfilePortBig, ProfileNoDir,
   ProfileSecret}

ConnectionResults ==
  {[success |-> TRUE], [success |-> FALSE, error |-> "Timed out while waiting for handshake"]}

SyncResults == {syncResult(0), syncResult(23)}

\* transfers that succeed, fail with a code classified recoverable (23) or
\* fail with one that is not (1)
TransferResults == {syncResult(0), syncResult(23), syncResult(1)}

(***************************************************************************)
(* Init: the state after construction.                                     *)
(***************************************************************************)
InitState ==
  /\ state = "idle"
  /\ profile = None
  /\ lastError = None
  /\ retryCount = 0
  /\ watcherSubscription = FALSE
  /\ leakedSubscription = FALSE
  /\ recoveryTimeout = "none"
  /\ process = 0
  /\ procs = [p \in ProcIds |-> "none"]
  /\ pendingEvents = EmptyMap
  /\ debounceTimer = {}
  /\ window = <<>>
  /\ handlers = EmptyBag
  /\ uncovered = {}
  /\ starts = [i \in Slots |-> NoCall]
  /\ stops = {}
  /\ killTimers = {}
  /\ syncJob = NewJob
  /\ service = [pc |-> "idle"]
  /\ startCommand = [pc |-> "idle"]
  /\ setup = [pc |-> "idle"]
  /\ builder = [pc |-> "idle"]
  /\ recent = [alias |-> None, calls |-> 0]
  /\ exec = [i \in ExecSlots |-> NoExec]
  /\ last = [op |-> "none"]

\* a session in any environment: profiles that fail validation, missing
\* tools, an unreachable host, failing transfers
SessionWorld ==
  [profiles |-> StartProfiles, tools |-> BOOLEAN,
   connections |-> ConnectionResults, syncs |-> SyncResults,
   handlers |-> MaxHandlers, procs |-> SessionProcs,
   lines |-> WatchLines, window |-> 0, observe |-> {}]

\* a session in a healthy environment (a valid profile, the tools present,
\* the host reachable) where transfers may fail
HealthyWorld ==
  [profiles |-> {ProfileAlpha}, tools |-> {TRUE},
   connections |-> {[success |-> TRUE]}, syncs |-> SyncResults,
   handlers |-> MaxHandlers, procs |-> SessionProcs,
   lines |-> WatchLines, window |-> 0, observe |-> {}]

\* a session in a healthy environment whose watcher reports two paths; the
\* run observes the watcher
TransferLines ==
  {<<[event |-> "CLOSE_WRITE,CLOSE", path |-> "/work/a"]>>,
   <<[event |-> "CLOSE_WRITE,CLOSE", path |-> "/work/a"],
     [event |-> "CREATE", path |-> "/work/b"]>>}

TransferWorld ==
  [profiles |-> {ProfileAlpha}, tools |-> {TRUE},
   connections |-> {[success |-> TRUE]}, syncs |-> SyncResults,
   handlers |-> MaxHandlers, procs |-> SessionProcs,
   lines |-> TransferLines, window |-> 0,
   observe |-> {"flush", "sync.result"}]

\* a session in a healthy environment whose transfers may also fail with
\* a terminal exit code
ExitCodeWorld ==
  [profiles |-> {ProfileAlpha}, tools |-> {TRUE},
   connections |-> {[success |-> TRUE]}, syncs |-> TransferResults,
   handlers |-> MaxHandlers, procs |-> SessionProcs,
   lines |-> WatchLines, window |-> 0, observe |-> {"proc.close", "sync.result", "recovery"}]

Init == world = SessionWorld /\ InitState

InitTransfer == world = TransferWorld /\ InitState

InitExitCode == world = ExitCodeWorld /\ InitState

InitHealthy == world = HealthyWorld /\ InitState

(***************************************************************************)
(* The actions of the orchestrator and of its environment.                 *)
(***************************************************************************)
FreeSlot(i) == starts[i] = NoCall /\ \A j \in Slots : j < i => starts[j] # NoCall

\* `last` of a step that only a run which observes that kind of step
\* looks at
Tracked(l) == IF l.op \in world.observe THEN l ELSE Quiet

\* what a step flushed, in a run that observes flushes: the map and the
\* window before the step and the batches the step emitted
TrackedFlush(s1) ==
  IF "flush" \in world.observe
  THEN [map |-> pendingEvents, window |-> window, fired |-> s1.fired]
  ELSE EmptyMap

\* the state the end of a transfer found, in a run that observes it
TrackedFrom ==
  IF "sync.result" \in world.observe THEN [from |-> state] ELSE EmptyMap

\* orchestrator.start(profile) is called
Start(p) ==
  /\ "budget" \in DOMAIN world => callsMade(Cur) < world.budget
  /\ \E i \in Slots : FreeSlot(i) /\ Apply(startBegin(Cur, i, p))

\* the process a starting call's stop() was waiting for has exited
StartStopped(i) ==
  /\ starts[i].pc = "stopping"
  /\ procs[starts[i].awaiting] = "exited"
  /\ Apply(startStopped(Cur, i))

StartValidated(i) ==
  /\ starts[i].pc = "validating"
  /\ Apply(startValidated(Cur, i))

StartRsyncChecked(i, found) ==
  /\ starts[i].pc = "which_rsync"
  /\ Apply(startRsyncChecked(Cur, i, found))

StartInotifyChecked(i, found) ==
  /\ starts[i].pc = "which_inotifywait"
  /\ Apply(startInotifyChecked(Cur, i, found))

StartConnected(i, result) ==
  /\ starts[i].pc = "testConnection"
  /\ Apply(startConnected(Cur, i, result))

StartSynced(i, result) ==
  /\ starts[i].pc = "sync"
  /\ Apply(startSynced(Cur, i, result))

\* the process watcher.start()'s stop() was waiting for has exited
StartWatcherStopped(i) ==
  /\ starts[i].pc = "watcher_stopping"
  /\ procs[starts[i].awaiting] = "exited"
  /\ Apply(startWatcherStopped(Cur, i))

\* orchestrator.stop() is called
Stop ==
  LET s1 == stopBegin(Cur) IN
  IF s1.await # 0
  THEN Apply([s1 EXCEPT !.stops = @ \cup {s1.await},
                        !.last = [op |-> "stop.call", from |-> state,
                                  timerBefore |-> recoveryTimeout]
                                 @@ TrackedFlush(s1)])
  ELSE Apply([reset(s1) EXCEPT
                !.last = [op |-> "stop.return", from |-> state, atomic |-> TRUE,
                          timerBefore |-> recoveryTimeout]
                         @@ TrackedFlush(s1)])

\* the process a stop() was waiting for has exited: stop() returns
StopExited(p) ==
  /\ p \in stops
  /\ procs[p] = "exited"
  /\ Apply([stopEnd(Cur) EXCEPT
              !.stops = @ \ {p},
              !.last = [op |-> "stop.return", from |-> state, atomic |-> FALSE]])

\* the transfer of an incremental job ended
SyncResultArrives(job, result) ==
  /\ BagIn(job, handlers)
  /\ LET s0 == [Cur EXCEPT !.handlers = @ (-) SetToBag({job})]
         s1 == handleSyncResult(s0, job, result)
     IN Apply([s1 EXCEPT
                 !.last = [op |-> "sync.result", ev |-> <<>>,
                           success |-> result.success,
                           exitCode |-> result.exitCode,
                           retryBefore |-> retryCount,
                           timerBefore |-> recoveryTimeout]
                          @@ TrackedFrom])

\* the recovery timer fires
RecoveryTimer ==
  /\ recoveryTimeout = "pending"
  /\ Apply([recoveryCallback([Cur EXCEPT !.recoveryTimeout = "none"])
              EXCEPT !.last = Tracked([op |-> "recovery", ev |-> <<>>,
                                       from |-> state,
                                       handlersBefore |-> handlers])])

\* a chunk of lines a watch process printed arrives
WatchLine(p, lines) ==
  /\ Alive(Cur, p)
  /\ Apply([handleData(Cur, lines) EXCEPT
              !.last = Tracked([op |-> "line", lines |-> lines])])

\* a quiet-window timer fires
DebounceTimer ==
  \E g \in debounceTimer :
    LET s1 == flushEvents([Cur EXCEPT !.debounceTimer = @ \ {g}])
    IN Apply([s1 EXCEPT
                !.last = Tracked([op |-> "flush", ev |-> <<>>, timer |-> g,
                                  from |-> state,
                                  heard |-> watcherSubscription
                                              \/ leakedSubscription]
                                 @@ TrackedFlush(s1))])

\* a watch process exits: its 'exit' event ("crashed": on its own, in a
\* run that observes how processes end)
ProcExit(p) ==
  /\ Alive(Cur, p)
  /\ Apply([Cur EXCEPT
              !.procs[p] = IF @ = "running" /\ "proc.close" \in world.observe
                           THEN "crashed" ELSE "exited",
              !.killTimers = @ \ {p},
              !.last = Quiet])

Awaited(p) ==
  p \in stops \/ \E i \in Slots : starts[i] # NoCall /\ starts[i].awaiting = p

\* its 'close' event, after the continuations of the 'exit' event
ProcClose(p) ==
  /\ procs[p] \in {"exited", "crashed"}
  /\ ~Awaited(p)
  /\ Apply([Cur EXCEPT
              !.procs[p] = "none", !.process = 0,
              !.last = Tracked([op |-> "proc.close",
                                unexpected |-> procs[p] = "crashed",
                                tracked |-> process = p, from |-> state])])

Next ==
  \/ \E p \in world.profiles : Start(p)
  \/ \E i \in Slots : StartStopped(i)
  \/ \E i \in Slots : StartValidated(i)
  \/ \E i \in Slots, found \in world.tools : StartRsyncChecked(i, found)
  \/ \E i \in Slots, found \in world.tools : StartInotifyChecked(i, found)
  \/ \E i \in Slots, result \in world.connections : StartConnected(i, result)
  \/ \E i \in Slots, result \in world.syncs : StartSynced(i, result)
  \/ \E i \in Slots : StartWatcherStopped(i)
  \/ Stop
  \/ \E p \in ProcIds : StopExited(p)
  \/ \E job \in BagToSet(handlers), result \in world.syncs :
       SyncResultArrives(job, result)
  \/ RecoveryTimer
  \/ \E p \in ProcIds, lines \in world.lines : WatchLine(p, lines)
  \/ DebounceTimer
  \/ \E p \in ProcIds : ProcExit(p)
  \/ \E p \in ProcIds : ProcClose(p)

Spec == Init /\ [][Next]_vars

\* The session in a healthy environment, where what is pending happens: a
\* timer that is armed fires, a transfer that was started ends, and a process
\* that was signalled exits and closes.
Fairness ==
  /\ WF_vars(RecoveryTimer)
  /\ WF_vars(DebounceTimer)
  /\ WF_vars(\E job \in BagToSet(handlers), result \in world.syncs :
               SyncResultArrives(job, result))
  /\ WF_vars(\E i \in Slots : StartValidated(i))
  /\ WF_vars(\E p \in ProcIds : procs[p] = "signalled" /\ ProcExit(p))
  /\ WF_vars(\E p \in ProcIds : ProcClose(p))
  /\ WF_vars(\E p \in ProcIds : StopExited(p))
  /\ WF_vars(\E i \in Slots : StartStopped(i))
  /\ WF_vars(\E i \in Slots : StartWatcherStopped(i))

SpecFair == InitHealthy /\ [][Next]_vars /\ Fairness

SpecTransfer == InitTransfer /\ [][Next]_vars

SpecExitCode == InitExitCode /\ [][Next]_vars

(***************************************************************************)
(* SpecWatcher: the watcher driven directly through IFileWatcher, with     *)
(* nobody listening to its batches: start(config), stop() (the stop() of   *)
(* an idle orchestrator is the watcher's), the lines its processes print   *)
(* and its quiet-window timer.  The run tracks the window.                 *)
(***************************************************************************)
\* lines of two paths, two events of one path, a line without a path, and
\* a chunk of two lines
WatcherLines ==
  {<<[event |-> "CLOSE_WRITE,CLOSE", path |-> "/work/a"]>>,
   <<[event |-> "DELETE", path |-> "/work/a"]>>,
   <<[event |-> "CREATE", path |-> "/work/b"]>>,
   <<[event |-> "CREATE", path |-> ""]>>,
   <<[event |-> "CREATE", path |-> "/work/b"],
     [event |-> "DELETE", path |-> "/work/b"]>>}

WatcherWorld ==
  [profiles |-> {ProfileAlpha}, tools |-> {TRUE},
   connections |-> {[success |-> TRUE]}, syncs |-> SyncResults,
   handlers |-> MaxHandlers, procs |-> SessionProcs,
   lines |-> WatcherLines, window |-> MaxWindow, observe |-> {"flush"}]

InitWatcher == world = WatcherWorld /\ InitState

\* InotifyWatcher.start(config) up to the await inside its stop(), or to
\* the end
watcherStart(s, i) ==
  LET s1 == IF s.process # 0 THEN watcherStopBegin(s) ELSE s IN
  IF s1.await # 0
  THEN [s1 EXCEPT !.starts[i] = [NewCall("alpha") EXCEPT
                                    !.pc = "watcher.start",
                                    !.awaiting = s1.await],
                  !.last = [op |-> "watcher.start"] @@ TrackedFlush(s1)]
  ELSE [watcherSpawn(s1) EXCEPT
          !.last = [op |-> "watcher.start"] @@ TrackedFlush(s1)]

\* InotifyWatcher.start(config) after the await
watcherStartEnd(s, i) ==
  [watcherSpawn(watcherStopEnd(s)) EXCEPT !.starts[i] = NoCall,
                                           !.last = [op |-> "watcher.start"]]

WStart == \E i \in Slots : FreeSlot(i) /\ Apply(watcherStart(Cur, i))

WStartStopped(i) ==
  /\ starts[i].pc = "watcher.start"
  /\ procs[starts[i].awaiting] = "exited"
  /\ Apply(watcherStartEnd(Cur, i))

NextWatcher ==
  \/ WStart
  \/ \E i \in Slots : WStartStopped(i)
  \/ Stop
  \/ \E p \in ProcIds : StopExited(p)
  \/ \E p \in ProcIds, lines \in world.lines : WatchLine(p, lines)
  \/ DebounceTimer
  \/ \E p \in ProcIds : ProcExit(p)
  \/ \E p \in ProcIds : ProcClose(p)

SpecWatcher == InitWatcher /\ [][NextWatcher]_vars

(***************************************************************************)
(* SpecStopFair: the watcher as in SpecWatcher, in a run that follows the  *)
(* grace timers of killProcess, with watch processes that end on SIGTERM   *)
(* (sigterm: "obeyed") or that ignore it and end on SIGKILL only           *)
(* ("ignored").  What is pending happens: an armed timer fires, a process  *)
(* ends on a signal it does not survive, and the continuations of its      *)
(* 'exit' event run.                                                       *)
(***************************************************************************)
StopWorld(sigterm) ==
  [profiles |-> {ProfileAlpha}, tools |-> {TRUE},
   connections |-> {[success |-> TRUE]}, syncs |-> SyncResults,
   handlers |-> MaxHandlers, procs |-> SessionProcs,
   lines |-> WatchLines, window |-> MaxWindow,
   observe |-> {"flush", "kill.grace"}, sigterm |-> sigterm]

InitStop == world \in {StopWorld("obeyed"), StopWorld("ignored")} /\ InitState

\* the grace timer of a killProcess call fires
KillGrace(p) ==
  /\ p \in killTimers
  /\ Apply([killGrace(Cur, p) EXCEPT
              !.last = [op |-> "kill.grace"]])

\* the signal sent to the process ends it
Fatal(p) ==
  \/ procs[p] = "signalled" /\ world.sigterm = "obeyed"
  \/ procs[p] = "sigkilled"

NextStop ==
  \/ WStart
  \/ \E i \in Slots : WStartStopped(i)
  \/ Stop
  \/ \E p \in ProcIds : StopExited(p)
  \/ \E p \in ProcIds : KillGrace(p)
  \/ \E p \in ProcIds, lines \in world.lines : WatchLine(p, lines)
  \/ DebounceTimer
  \/ \E p \in ProcIds : ProcExit(p)
  \/ \E p \in ProcIds : ProcClose(p)

FairnessStop ==
  /\ WF_vars(DebounceTimer)
  /\ \A p \in ProcIds :
       /\ WF_vars(KillGrace(p))
       /\ WF_vars(Fatal(p) /\ ProcExit(p))
       /\ WF_vars(StopExited(p))
       /\ WF_vars(ProcClose(p))
  /\ \A i \in 1..MaxStartCalls : WF_vars(WStartStopped(i))

SpecStopFair == InitStop /\ [][NextStop]_vars /\ FairnessStop

(***************************************************************************)
(* SpecExecFair: RsyncClient.sync called for full and incremental jobs,    *)
(* with rsync processes of every nature; a timer that is armed fires and a *)
(* process that may end does end.                                          *)
(***************************************************************************)
Closes == {[code |-> 0], [code |-> 23], [signal |-> "SIGTERM"]}

ExecStart(i, strategy, nature) ==
  /\ exec[i].phase = "idle"
  /\ Apply([Cur EXCEPT !.exec[i] = execBegin(strategy, nature),
                       !.last = [op |-> "exec"]])

ExecTimeout(i) ==
  /\ exec[i].phase # "idle"
  /\ exec[i].timeoutId = "armed"
  /\ Apply([Cur EXCEPT !.exec[i] = execTimeout(@), !.last = [op |-> "exec"]])

ExecGrace(i) ==
  /\ exec[i].phase # "idle"
  /\ exec[i].graceTimer = "armed"
  /\ Apply([Cur EXCEPT !.exec[i] = execGrace(@), !.last = [op |-> "exec"]])

ExecClose(i, closed) ==
  /\ exec[i].phase = "running"
  /\ MayClose(exec[i])
  /\ ("signal" \in DOMAIN closed) => exec[i].signals # {}
  /\ Apply([Cur EXCEPT !.exec[i] = execClose(@, closed),
                       !.last = [op |-> "exec"]])

\* the caller is done with the result, and no timer of the execution is left
ExecDone(i) ==
  /\ exec[i].phase = "settled"
  /\ exec[i].graceTimer # "armed"
  /\ Apply([Cur EXCEPT !.exec[i] = NoExec, !.last = [op |-> "exec"]])

NextExec ==
  \/ \E i \in ExecSlots, strategy \in {"full", "incremental"},
        nature \in Natures : ExecStart(i, strategy, nature)
  \/ \E i \in ExecSlots : ExecTimeout(i)
  \/ \E i \in ExecSlots : ExecGrace(i)
  \/ \E i \in ExecSlots, closed \in Closes : ExecClose(i, closed)
  \/ \E i \in ExecSlots : ExecDone(i)

FairnessExec ==
  \A i \in ExecSlots :
    /\ WF_vars(ExecTimeout(i))
    /\ WF_vars(ExecGrace(i))
    /\ WF_vars(\E closed \in Closes : ExecClose(i, closed))

SpecExecFair == Init /\ [][NextExec]_vars /\ FairnessExec

(***************************************************************************)
(* SpecService: SyncService.sync called with pending jobs of every kind    *)
(* (as createFullSyncJob and createIncrementalSyncJob make them, and as    *)
(* `new SyncJob` allows), each transfer ending in every way it can.        *)
(***************************************************************************)
MkConfig(user, host, rdir, ldir, port, exclude) ==
  [remoteUser |-> user, remoteHost |-> host, remoteDir |-> rdir,
   localDir |-> ldir, sshPort |-> port, exclude |-> exclude]

GitPattern == <<".", "g", "i", "t">>
LogPattern == <<"*", ".", "l", "o", "g">>

CommandProfiles ==
  {MkConfig(<<"u">>, <<"h">>, <<"/", "r">>, <<"/", "w">>, 22, <<>>),
   MkConfig(<<"u">>, <<"h">>, <<"/", "r", "/">>, <<"/", "w", "/">>, 2222, <<GitPattern>>),
   MkConfig(<<"u">>, <<"h">>, <<"/", "r">>, <<"/", "w", "/">>, 65535, <<GitPattern, LogPattern>>),
   MkConfig(<<"u">>, <<"h">>, <<"/", "r", "/">>, <<"/", "w">>, 8, <<LogPattern, GitPattern>>)}

JobFiles == {{}, {"/w/a"}, {"/w/a", "/w/b"}}

\* how a transfer can end: rsync closes (exitCode -1: ended by a signal,
\* code null), times out, or cannot be spawned
FailedCodes == {1, 23, 255, 0 - 1}
Stderrs == {"", " ", "rsync: connection unexpectedly closed"}

Outcomes(executor) ==
  {[kind |-> "close", exitCode |-> 0, stdout |-> out, stderr |-> ""] :
     out \in {"", StatsOutput}}
  \cup {[kind |-> "close", exitCode |-> c, stdout |-> "", stderr |-> e] :
          c \in FailedCodes, e \in Stderrs}
  \cup {[kind |-> "reject", message |-> "spawn rsync ENOENT"]}
  \cup (IF executor = "full"
        THEN {[kind |-> "reject",
               message |-> "Process timed out after 300000ms"]}
        ELSE {})

ServiceSync(config, files, strategy) ==
  /\ service.pc = "idle"
  /\ Apply([serviceSync(Cur, [profile |-> config, files |-> files,
                              strategy |-> strategy])
              EXCEPT !.last = [op |-> "service.sync"]])

ServiceSettle(outcome) ==
  /\ service.pc = "executing"
  /\ outcome \in Outcomes(service.executor)
  /\ Apply([serviceSettle(Cur, outcome)
              EXCEPT !.last = [op |-> "service.return", outcome |-> outcome]])

\* the caller is done with the result
ServiceDone ==
  /\ service.pc = "returned"
  /\ Apply([Cur EXCEPT !.service = [pc |-> "idle"], !.syncJob = NewJob,
                       !.last = [op |-> "service.done"]])

\* a caller of the builder: buildFullSync(config), then
\* buildIncrementalSync(config, files) for the same profile
BuildFullSync(config) ==
  /\ builder.pc = "idle"
  /\ Apply([Cur EXCEPT !.builder = [pc |-> "full", config |-> config,
                                    full |-> buildFullSync(config)],
                       !.last = [op |-> "builder"]])

BuildIncrementalSync(files) ==
  /\ builder.pc = "full"
  /\ Apply([Cur EXCEPT !.builder =
                         [@ EXCEPT !.pc = "both"]
                         @@ [files |-> files,
                             incremental |->
                               buildIncrementalSync(builder.config, files)],
                       !.last = [op |-> "builder"]])

BuilderDone ==
  /\ builder.pc = "both"
  /\ Apply([Cur EXCEPT !.builder = [pc |-> "idle"],
                       !.last = [op |-> "builder"]])

NextService ==
  \/ \E config \in CommandProfiles, files \in JobFiles,
        strategy \in {"full", "incremental"} :
       ServiceSync(config, files, strategy)
  \/ \E outcome \in Outcomes("full") \cup Outcomes("incremental") :
       ServiceSettle(outcome)
  \/ ServiceDone
  \/ \E config \in CommandProfiles : BuildFullSync(config)
  \/ \E files \in JobFiles : BuildIncrementalSync(files)
  \/ BuilderDone

SpecService == Init /\ [][NextService]_vars

(***************************************************************************)
(* SpecOverlap: the session in a healthy environment with two profiles,    *)
(* where a start() may be called while another start() is in progress.     *)
(* The run follows the profile of the latest call.                         *)
(***************************************************************************)
MaxOverlap == 2

\* start() calls in one run of the overlapping-calls world
MaxBudget == 3

OverlapWorld ==
  [profiles |-> {ProfileAlpha, ProfileBeta}, tools |-> {TRUE},
   connections |-> {[success |-> TRUE]}, syncs |-> SyncResults,
   handlers |-> MaxHandlers, procs |-> SessionProcs,
   lines |-> WatchLines, window |-> 0, observe |-> {"start.call"},
   calls |-> MaxOverlap, budget |-> MaxBudget]

InitOverlap == world = OverlapWorld /\ InitState

\* a session whose watched directory stays unchanged: start() and stop()
\* calls, their continuations, and the ends of the watch processes
NextOverlap ==
  \/ \E p \in world.profiles : Start(p)
  \/ \E i \in Slots : StartStopped(i)
  \/ \E i \in Slots : StartValidated(i)
  \/ \E i \in Slots, found \in world.tools : StartRsyncChecked(i, found)
  \/ \E i \in Slots, found \in world.tools : StartInotifyChecked(i, found)
  \/ \E i \in Slots, result \in world.connections : StartConnected(i, result)
  \/ \E i \in Slots, result \in world.syncs : StartSynced(i, result)
  \/ \E i \in Slots : StartWatcherStopped(i)
  \/ Stop
  \/ \E p \in ProcIds : StopExited(p)
  \/ \E p \in ProcIds : ProcExit(p)
  \/ \E p \in ProcIds : ProcClose(p)

SpecOverlap == InitOverlap /\ [][NextOverlap]_vars

(***************************************************************************)
(* SpecExclude: the watcher of SpecWatcher started with the exclude        *)
(* patterns .git and *.log, its process printing lines of paths the        *)
(* patterns exclude, of paths they do not, and a line without a path.      *)
(* The run tracks the window and the lines of each chunk.                  *)
(***************************************************************************)
ExcludeLines ==
  {<<[event |-> "CLOSE_WRITE,CLOSE", path |-> "/work/a"]>>,
   <<[event |-> "CREATE", path |-> "/work/.gitignore"]>>,
   <<[event |-> "CREATE", path |-> "/work/.git/config"]>>,
   <<[event |-> "CLOSE_WRITE,CLOSE", path |-> "/work/X.LOG"]>>,
   <<[event |-> "CREATE", path |-> ""]>>,
   <<[event |-> "DELETE", path |-> "/work/x.log"],
     [event |-> "DELETE", path |-> "/work/a"]>>}

ExcludeWorld ==
  [profiles |-> {ProfileAlpha}, tools |-> {TRUE},
   connections |-> {[success |-> TRUE]}, syncs |-> SyncResults,
   handlers |-> MaxHandlers, procs |-> SessionProcs,
   lines |-> ExcludeLines, window |-> MaxWindow,
   observe |-> {"flush", "line"}, exclude |-> <<GitPattern, LogPattern>>]

InitExclude == world = ExcludeWorld /\ InitState

SpecExclude == InitExclude /\ [][NextWatcher]_vars

(***************************************************************************)
(* SpecCommand: startWithConfig called with and without a credential       *)
(* manager and a stored password, start() of the orchestrator returning or *)
(* throwing, and the operator answering the prompt in every way.           *)
(***************************************************************************)
StartErrors ==
  {<<"S", "S", "H", " ", "c", "o", "n", "n", "e", "c", "t", "i", "o", "n", " ", "f", "a", "i", "l", "e", "d", ":", " ", "P", "e", "r", "m", "i", "s", "s", "i", "o", "n", " ", "d", "e", "n", "i", "e", "d", " ", "(", "p", "u", "b", "l", "i", "c", "k", "e", "y", ",", "p", "a", "s", "s", "w", "o", "r", "d", ")">>,
   <<"S", "S", "H", " ", "c", "o", "n", "n", "e", "c", "t", "i", "o", "n", " ", "f", "a", "i", "l", "e", "d", ":", " ", "C", "o", "n", "n", "e", "c", "t", "i", "o", "n", " ", "t", "i", "m", "e", "d", " ", "o", "u", "t">>,
   <<"r", "s", "y", "n", "c", " ", "i", "s", " ", "n", "o", "t", " ", "i", "n", "s", "t", "a", "l", "l", "e", "d">>,
   <<"S", "S", "H", " ", "c", "o", "n", "n", "e", "c", "t", "i", "o", "n", " ", "f", "a", "i", "l", "e", "d", ":", " ", "C", "o", "n", "n", "e", "c", "t", "i", "o", "n", " ", "r", "e", "f", "u", "s", "e", "d">>,
   <<"I", "n", "i", "t", "i", "a", "l", " ", "s", "y", "n", "c", " ", "f", "a", "i", "l", "e", "d", ":", " ", "H", "o", "s", "t", " ", "k", "e", "y", " ", "v", "e", "r", "i", "f", "i", "c", "a", "t", "i", "o", "n", " ", "f", "a", "i", "l", "e", "d", ".">>}

\* how a start() settles
StartSettled ==
  {[ok |-> TRUE]} \cup {[ok |-> FALSE, message |-> m] : m \in StartErrors}

Secrets == {None, "stored"}
Answers == {None, "", "secret", "other"}

CommandBegin(valid, credentials, secret) ==
  /\ startCommand.pc = "idle"
  /\ Apply([Cur EXCEPT !.startCommand = commandBegin(valid, credentials, secret),
                       !.last = [op |-> "command"]])

CommandStarted(settled) ==
  /\ startCommand.pc = "start"
  /\ Apply([Cur EXCEPT !.startCommand = commandStarted(@, settled),
                       !.last = [op |-> "command"]])

CommandPrompted(answer, save) ==
  /\ startCommand.pc = "prompt"
  /\ Apply([Cur EXCEPT !.startCommand = commandPrompted(@, answer, save),
                       !.last = [op |-> "command.prompted",
                                 before |-> startCommand]])

CommandRetried(settled) ==
  /\ startCommand.pc = "retry"
  /\ Apply([Cur EXCEPT !.startCommand = commandRetried(@, settled),
                       !.last = [op |-> "command"]])

CommandDone ==
  /\ startCommand.pc = "returned"
  /\ Apply([Cur EXCEPT !.startCommand = [pc |-> "idle"],
                       !.last = [op |-> "command"]])

NextCommand ==
  \/ \E valid \in BOOLEAN, credentials \in BOOLEAN, secret \in Secrets :
       CommandBegin(valid, credentials, secret)
  \/ \E settled \in StartSettled : CommandStarted(settled)
  \/ \E answer \in Answers, save \in BOOLEAN : CommandPrompted(answer, save)
  \/ \E settled \in StartSettled : CommandRetried(settled)
  \/ CommandDone

SpecCommand == Init /\ [][NextCommand]_vars

(***************************************************************************)
(* SpecSetup: validateSetup of either client, the connection test and the  *)
(* remote commands returning in every way.                                 *)
(***************************************************************************)
SetupClients == {"SSHClient", "SSH2Client"}
RemoteDirs == {"/remote", "/missing"}

\* what execute() returns: the command ran and printed, printed nothing
\* (test -d or touch failed: exit code 1), or the session failed
ExecResults(text) ==
  {[success |-> TRUE, stdout |-> Append(text, "\n")],
   [success |-> TRUE, stdout |-> text],
   [success |-> TRUE, stdout |-> <<" ">> \o text \o <<"\n">>],
   [success |-> TRUE, stdout |-> <<>>],
   [success |-> FALSE, stdout |-> <<>>],
   [success |-> FALSE, stdout |-> Append(text, "\n")]}

SetupConnections ==
  ConnectionResults
    \cup {[success |-> FALSE, error |-> "Permission denied (publickey)"]}

SetupBegin(client, remoteDir) ==
  /\ setup.pc = "idle"
  /\ Apply([Cur EXCEPT !.setup = setupBegin(client, remoteDir),
                       !.last = [op |-> "setup"]])

SetupConnected(result) ==
  /\ setup.pc = "testConnection"
  /\ Apply([Cur EXCEPT !.setup = setupConnected(@, result),
                       !.last = [op |-> "setup"]])

SetupDirChecked(result) ==
  /\ setup.pc = "dirCheck"
  /\ Apply([Cur EXCEPT !.setup = setupDirChecked(@, result),
                       !.last = [op |-> "setup"]])

SetupWriteChecked(result) ==
  /\ setup.pc = "writeCheck"
  /\ Apply([Cur EXCEPT !.setup = setupWriteChecked(@, result),
                       !.last = [op |-> "setup"]])

SetupDone ==
  /\ setup.pc = "returned"
  /\ Apply([Cur EXCEPT !.setup = [pc |-> "idle"], !.last = [op |-> "setup"]])

NextSetup ==
  \/ \E client \in SetupClients, remoteDir \in RemoteDirs :
       SetupBegin(client, remoteDir)
  \/ \E result \in SetupConnections : SetupConnected(result)
  \/ \E result \in ExecResults(ExistsText) : SetupDirChecked(result)
  \/ \E result \in ExecResults(WritableText) : SetupWriteChecked(result)
  \/ SetupDone

SpecSetup == Init /\ [][NextSetup]_vars

(***************************************************************************)
(* SpecJob: the methods of one SyncJob called directly, in any order.      *)
(***************************************************************************)
TestCounts == {0, 3}
TestJobErrors == {"rsync failed", ""}

JobStart ==
  /\ syncJob.calls < MaxJobCalls
  /\ Apply([Cur EXCEPT !.syncJob = jobStart(syncJob),
                       !.last = [op |-> "job", before |-> syncJob]])

JobComplete(files, bytes) ==
  /\ syncJob.calls < MaxJobCalls
  /\ Apply([Cur EXCEPT !.syncJob = jobComplete(syncJob, files, bytes),
                       !.last = [op |-> "job", before |-> syncJob]])

JobFail(error) ==
  /\ syncJob.calls < MaxJobCalls
  /\ Apply([Cur EXCEPT !.syncJob = jobFail(syncJob, error),
                       !.last = [op |-> "job", before |-> syncJob]])

NextJob ==
  \/ JobStart
  \/ \E files \in TestCounts, bytes \in TestCounts : JobComplete(files, bytes)
  \/ \E error \in TestJobErrors : JobFail(error)

SpecJob == Init /\ [][NextJob]_vars

(***************************************************************************)
(* SpecSM: the state machine driven directly, as its unit tests drive it.  *)
(***************************************************************************)
TestProfiles == {None, "alpha", "beta"}
TestErrors == {None, "", "Connection failed"}

SMTransition(newState, ctxProfile, ctxError) ==
  /\ newState = "recovering" => retryCount < MaxRetryCount
  /\ LET s1 == transition(Cur, newState, ctxProfile, ctxError) IN
     Apply([s1 EXCEPT
              !.last = [op |-> "transition", ev |-> <<>>,
                        from |-> state, target |-> newState,
                        ret |-> s1.ret, ctxProfile |-> ctxProfile,
                        ctxError |-> ctxError,
                        before |-> [profile |-> profile, lastError |-> lastError,
                                    retryCount |-> retryCount]]])

SMReset ==
  Apply([reset(Cur) EXCEPT !.last = [op |-> "reset", from |-> state]])

NextSM ==
  \/ \E newState \in States, ctxProfile \in TestProfiles, ctxError \in TestErrors :
       SMTransition(newState, ctxProfile, ctxError)
  \/ SMReset

SpecSM == Init /\ [][NextSM]_vars


(***************************************************************************)
(* Properties of the state machine (SpecSM)                                *)
(***************************************************************************)

\* the edges the specification lists as legal
LegalEdges ==
  {<<"idle", "initializing">>,
   <<"initializing", "connecting">>, <<"initializing", "error">>,
   <<"initializing", "idle">>,
   <<"connecting", "watching">>, <<"connecting", "error">>,
   <<"connecting", "idle">>,
   <<"watching", "syncing">>, <<"watching", "error">>, <<"watching", "idle">>,
   <<"syncing", "watching">>, <<"syncing", "error">>,
   <<"error", "recovering">>, <<"error", "idle">>,
   <<"recovering", "watching">>, <<"recovering", "error">>,
   <<"recovering", "idle">>}

\* C4: a transition request is accepted exactly when its edge is one of the
\* seventeen legal edges; then the state is the target, otherwise it is what
\* it was.  The only other change of state is reset(), which ends in idle.
C4_OnlyLegalEdges ==
  /\ last.op = "transition" =>
       /\ last.ret <=> (<<last.from, last.target>> \in LegalEdges)
       /\ state = IF last.ret THEN last.target ELSE last.from
       /\ state # last.from => <<last.from, state>> \in LegalEdges
  /\ last.op = "reset" => state = "idle"

\* an accepted request along the edge error -> recovering
C4_Witness ==
  /\ last.op = "transition" /\ last.ret
  /\ last.from = "error" /\ state = "recovering"

\* C5: a request whose target is not legal from the current state returns
\* false, leaves state, profile, lastError and retryCount as they were and
\* emits no event, whatever profile or error the request carries.
C5_RejectedChangesNothing ==
  (last.op = "transition" /\ last.target \notin VALID_TRANSITIONS[last.from]) =>
     /\ last.ret = FALSE
     /\ state = last.from
     /\ profile = last.before.profile
     /\ lastError = last.before.lastError
     /\ retryCount = last.before.retryCount
     /\ last.ev = <<>>

\* idle -> watching was requested with a profile and an error message
C5_Witness ==
  /\ last.op = "transition"
  /\ last.from = "idle" /\ last.target = "watching"
  /\ last.ctxProfile = "alpha" /\ last.ctxError = "Connection failed"
  /\ state = "idle"

\* C6: an accepted entry into recovering adds exactly one to retryCount, an
\* accepted entry into watching or idle (and reset()) leaves it at 0, and no
\* other transition, accepted or rejected, changes it.
C6_RetryCounter ==
  /\ (last.op = "transition" /\ last.ret) =>
       /\ last.target = "recovering" =>
            retryCount = last.before.retryCount + 1
       /\ last.target \in {"watching", "idle"} => retryCount = 0
       /\ last.target \notin {"recovering", "watching", "idle"} =>
            retryCount = last.before.retryCount
  /\ (last.op = "transition" /\ ~last.ret) =>
       retryCount = last.before.retryCount
  /\ last.op = "reset" => retryCount = 0

\* watching was entered from recovering after two recoveries
C6_Witness ==
  /\ last.op = "transition" /\ last.ret
  /\ last.from = "recovering" /\ last.target = "watching"
  /\ last.before.retryCount = 2
  /\ retryCount = 0


(***************************************************************************)
(* Properties of the session                                               *)
(***************************************************************************)

\* the step was the end of an incremental job's transfer, which failed
SyncFailedStep == last.op = "sync.result" /\ ~last.success

\* the step reported a failure as non-recoverable
ReportedNonRecoverable ==
  /\ last.op = "sync.result"
  /\ \E k \in DOMAIN last.ev :
       last.ev[k].type = "error" /\ ~last.ev[k].recoverable

\* no start() is in progress and the step was neither of start() nor of stop()
NoStartNoStop ==
  /\ \A i \in Slots : starts[i] = NoCall
  /\ last.op \notin {"stop.call", "stop.return", "start.ok", "start.failed"}

\* C3: if, with no further stop() or start(), incremental syncs keep
\* failing, the retry budget runs out: a failure is then reported as
\* non-recoverable (and no recovery follows it).
C3_KeepFailingGivesUp ==
  (<>[]NoStartNoStop /\ []<>SyncFailedStep) => <>ReportedNonRecoverable

\* the jobs whose transfer is running: incremental ones and initial full ones
RunningJobs ==
  BagCardinality(handlers) + Cardinality({i \in Slots : starts[i].pc = "sync"})

\* C1: at most one sync job, initial or incremental, is running at any time.
C1_AtMostOneJob == RunningJobs <= 1

\* the session is at rest: watching, with nothing running, queued or armed
AtRest ==
  /\ state = "watching"
  /\ handlers = EmptyBag
  /\ pendingEvents = EmptyMap /\ debounceTimer = {}
  /\ recoveryTimeout = "none"
  /\ stops = {} /\ \A i \in Slots : starts[i] = NoCall

\* C2: the paths of a batch delivered while a job was running are covered by
\* a later incremental job: once the session is at rest again, no such path
\* is left without a job created for it after the batch.
C2_BatchWhileSyncingCovered == AtRest => uncovered = {}

\* C7: stop() cancels the recovery timer pending when it is called, disposes
\* the batch subscription and stops the Aggregator (its quiet-window timer
\* cleared, and at return no process tracked and nothing queued), and when
\* it returns the state is idle with no profile, no lastError, retryCount 0.
C7_StopResets ==
  /\ last.op = "stop.call" =>
       /\ recoveryTimeout = "none"
       /\ ~watcherSubscription
       /\ debounceTimer = {}
  /\ last.op = "stop.return" =>
       /\ state = "idle" /\ profile = None /\ lastError = None
       /\ retryCount = 0
       /\ process = 0 /\ pendingEvents = EmptyMap
       /\ last.atomic =>
            /\ recoveryTimeout = "none"
            /\ ~watcherSubscription
            /\ debounceTimer = {}

\* stop() was called in recovering with the recovery timer pending, and has
\* returned
C7_Witness ==
  /\ last.op = "stop.return" /\ last.atomic
  /\ last.from = "recovering" /\ last.timerBefore = "pending"
  /\ state = "idle" /\ recoveryTimeout = "none"

\* C8: a start() that ran to its end (valid profile, tools present,
\* connection and initial sync successful) saw the machine enter exactly
\* initializing, connecting, watching from idle, one full job started and
\* one sync-completed event.
C8_StartHappyPath ==
  last.op = "start.ok" =>
    /\ last.call.visit = "watching"
    /\ last.call.fullStarted = 1
    /\ last.call.completed = 1

\* C9: when start() fails, the machine is in error with lastError the
\* failure message, and the call neither started the Aggregator nor saw
\* watching entered.
C9_StartFailureEndsInError ==
  last.op = "start.failed" =>
    /\ state = "error"
    /\ lastError = last.error
    /\ "inotifywait" \notin last.call.launched
    /\ last.call.visit # "watching"

\* C10: a start() whose profile fails validation fails with the validation
\* message before it has launched any external process (tool check,
\* connection test, transfer, watch process), and arms no recovery timer.
C10_ConfigFailsEarly ==
  (last.op = "start.failed"
     /\ validate(ProfileOf(last.call.profile)) # <<>>) =>
    /\ last.error = Join(validate(ProfileOf(last.call.profile)))
    /\ last.call.launched = {}
    /\ recoveryTimeout = "pending" => last.timerBefore = "pending"
    /\ state # "recovering"

\* a start() with port 65536 has failed
C10_Witness ==
  /\ last.op = "start.failed"
  /\ last.call.profile = "port65536"
  /\ last.error = "SSH port must be a valid port number (1-65535)"
(***************************************************************************)
(* The watcher's batches.                                                  *)
(***************************************************************************)
\* the paths of the events of a window, and the last event of a path
PathsOf(w) == {w[k].path : k \in 1..Len(w)}
LastOf(w, x) ==
  w[CHOOSE k \in 1..Len(w) :
      w[k].path = x /\ \A j \in (k + 1)..Len(w) : w[j].path # x]

\* the step emitted a batch (the timer's, or the final one of stop())
EmittedBatch == "fired" \in DOMAIN last /\ last.fired # <<>>

\* C11: a batch that is emitted holds exactly one event for each path of
\* the events accepted in its quiet window, and that event is the last one
\* accepted for the path.
C11_BatchIsLastPerPath ==
  EmittedBatch =>
    /\ Len(last.fired) = 1
    /\ {e.path : e \in last.fired[1]} = PathsOf(last.window)
    /\ \A x \in PathsOf(last.window) :
         {e \in last.fired[1] : e.path = x} = {LastOf(last.window, x)}

\* a batch emitted after three accepted events, two of them of one path with
\* different types
C11_Witness ==
  /\ EmittedBatch
  /\ Len(last.window) = 3
  /\ Cardinality(PathsOf(last.window)) = 2
  /\ \E j, k \in 1..3 : /\ j < k
                        /\ last.window[j].path = last.window[k].path
                        /\ last.window[j].type # last.window[k].type

\* events were inserted into the map in this step
Insertion == Len(window') > Len(window)

\* C12: at most one quiet-window timer is armed; an insertion leaves armed
\* only the timer it armed itself; and a batch the timer emits is emitted by
\* a timer armed by the last insertion, is the whole map, and leaves the
\* map empty.
C12_QuietWindowTimer ==
  /\ [](Cardinality(debounceTimer) <= 1)
  /\ [][Insertion => debounceTimer' = {Len(window')}]_vars
  /\ [](last.op = "flush" =>
          /\ pendingEvents = EmptyMap
          /\ last.fired # <<>> =>
               /\ last.timer = Len(last.window)
               /\ last.fired = <<Values(last.map)>>)

\* the timer emitted a batch of two paths after three insertions
C12_Witness ==
  /\ last.op = "flush"
  /\ last.timer = 3
  /\ Len(last.fired) = 1
  /\ Cardinality(last.fired[1]) = 2


\* C13: when stop() returns, no event is left in the map and no
\* quiet-window timer is armed.
C13_StopLeavesNothing ==
  last.op = "stop.return" => pendingEvents = EmptyMap /\ debounceTimer = {}

(***************************************************************************)
(* The watch process and the session.                                      *)
(***************************************************************************)
\* C14: when the watch process of an active session (watching or syncing)
\* has exited without having been signalled, the machine is in error once
\* the 'close' handler has run.
C14_UnexpectedExitReported ==
  (/\ last.op = "proc.close"
   /\ last.unexpected
   /\ last.tracked
   /\ last.from \in {"watching", "syncing"})
  => state = "error"

(***************************************************************************)
(* SyncJob.                                                                *)
(***************************************************************************)
\* what a job holds besides the count of calls and the outcome of the last
JobFields(j) ==
  <<j.status, j.startedAt, j.completedAt, j.error, j.filesTransferred,
    j.bytesTransferred>>

JobEdges ==
  {<<"pending", "running">>, <<"running", "completed">>,
   <<"running", "failed">>}

\* C15: a job's status only moves pending -> running -> completed or
\* failed; start() on a job that is not pending and complete() or fail()
\* on a job that is not running throw and leave status, timestamps, error
\* and counters as they were; a completed or failed job never changes.
C15_JobLifecycle ==
  /\ [][syncJob'.status # syncJob.status => <<syncJob.status, syncJob'.status>> \in JobEdges]_vars
  /\ [][syncJob.status \in {"completed", "failed"}
          => JobFields(syncJob') = JobFields(syncJob)]_vars
  /\ [][syncJob'.calls # syncJob.calls =>
          \/ syncJob'.threw = None /\ syncJob'.status # syncJob.status
          \/ syncJob'.threw # None /\ JobFields(syncJob') = JobFields(syncJob)]_vars

\* complete() was called on a failed job, and threw
C15_Witness ==
  /\ last.op = "job"
  /\ last.before.status = "failed"
  /\ syncJob.threw = "Cannot complete job in failed status"
  /\ syncJob.error = "rsync failed"

(***************************************************************************)
(* Incremental transfers.                                                  *)
(***************************************************************************)
\* the quiet-window timer delivered a batch to the orchestrator while the
\* machine was in watching
BatchInWatching ==
  /\ last.op = "flush"
  /\ last.from = "watching"
  /\ last.heard
  /\ last.fired # <<>>

\* the jobs whose sync-started event the step emitted
StartedJobs ==
  {last.ev[k].job : k \in {i \in 1..Len(last.ev) : last.ev[i].type = "syncStarted"}}

\* C16: a batch delivered in watching moves the machine to syncing and
\* creates exactly one job, incremental, whose files are exactly the paths
\* of the batch; and when the transfer of a job succeeds while the machine
\* is syncing, the machine is in watching with retryCount 0.
C16_BatchStartsOneJob ==
  /\ BatchInWatching =>
       /\ state = "syncing"
       /\ Cardinality({i \in 1..Len(last.ev) : last.ev[i].type = "syncStarted"}) = 1
       /\ \A j \in StartedJobs :
            /\ j.strategy = "incremental"
            /\ j.files = {e.path : e \in last.fired[1]}
            /\ BagIn(j, handlers)
  /\ (last.op = "sync.result" /\ last.success /\ last.from = "syncing") =>
       state = "watching" /\ retryCount = 0

\* the job of a batch of two paths succeeded while the machine was syncing
C16_Witness ==
  /\ last.op = "sync.result" /\ last.success /\ last.from = "syncing"
  /\ \E k \in 1..Len(last.ev) :
       /\ last.ev[k].type = "syncCompleted"
       /\ Cardinality(last.ev[k].job.files) = 2


\* the state changes a step emitted, in order
StateChanges ==
  SelectSeq(last.ev, LAMBDA e : e.type = "stateChanged")

Edge(e) == <<e.oldState, e.newState>>

\* C17: when the transfer of an incremental job fails while the machine is
\* syncing and the retry budget is not exhausted, the machine goes to error
\* and on to recovering with the recovery timer armed; and when that timer
\* fires in recovering, the machine re-enters watching, and the step starts
\* no job and nothing else.
C17_FailureSchedulesRecovery ==
  /\ (/\ last.op = "sync.result" /\ ~last.success
      /\ last.from = "syncing" /\ last.retryBefore < maxRetries) =>
       /\ Len(StateChanges) = 2
       /\ Edge(StateChanges[1]) = <<"syncing", "error">>
       /\ Edge(StateChanges[2]) = <<"error", "recovering">>
       /\ state = "recovering"
       /\ lastError # None
       /\ recoveryTimeout = "pending"
  /\ (last.op = "recovery" /\ last.from = "recovering") =>
       /\ state = "watching"
       /\ recoveryTimeout = "none"
       /\ handlers = last.handlersBefore
       /\ \A k \in 1..Len(last.ev) : last.ev[k].type = "stateChanged"

\* the recovery timer fired in recovering and the machine re-entered watching
C17_Witness ==
  /\ last.op = "recovery"
  /\ last.from = "recovering"
  /\ state = "watching"


\* C18: a transfer that fails with an exit code that is not classified
\* recoverable schedules no recovery: the step arms no recovery timer and
\* does not end in recovering.
C18_TerminalCodeSchedulesNothing ==
  (/\ last.op = "sync.result" /\ ~last.success
   /\ last.exitCode \notin RECOVERABLE_EXIT_CODES
   /\ last.from = "syncing")
  => state # "recovering" /\ recoveryTimeout = "none"

(***************************************************************************)
(* start(): a connection failure.                                          *)
(***************************************************************************)
\* C19: when the connection test of start() fails, the machine is not left
\* in error with nothing pending: a recovery is scheduled.
C19_ConnectionFailureRetried ==
  (/\ last.op = "start.failed"
   /\ last.call.pc = "testConnection"
   /\ retryCount < maxRetries
   /\ state = "error")
  => recoveryTimeout = "pending"

(***************************************************************************)
(* The execution of a transfer.                                            *)
(***************************************************************************)
\* C20: every execution of a transfer that was started eventually returns
\* its result.
C20_EveryExecutionReturns ==
  \A i \in ExecSlots :
    [](exec[i].phase = "running" => <>(exec[i].phase # "running"))

(***************************************************************************)
(* stop() of the watcher and the process that ignores SIGTERM.             *)
(***************************************************************************)
\* C21: a stop() of the watcher that awaits the end of the watch process
\* eventually returns, also when the process ignores the graceful signal.
C21_StopCompletes ==
  \A p \in ProcIds : (p \in stops) ~> (p \notin stops)

(***************************************************************************)
(* SyncService: the selection of a strategy.                               *)
(***************************************************************************)
\* C22: the strategy selected for a job is the incremental one if and only
\* if the job has a non-empty file list and was requested as incremental,
\* and the full one otherwise.
C22_StrategySelection ==
  service.pc # "idle" =>
    /\ service.selected \in {"incremental", "full"}
    /\ service.selected = "incremental"
         <=> (service.job.files # {} /\ service.job.strategy = "incremental")

C22_Witness ==
  /\ service.pc = "executing"
  /\ service.selected = "full"
  /\ service.job.files # {}

\* C23: the full strategy declares itself able to handle the job, whatever
\* its file list and requested strategy.
C23_FullHandlesAnyJob ==
  service.pc # "idle" => canHandle("full", service.job)

(***************************************************************************)
(* The error event and its recoverable flag.                               *)
(***************************************************************************)
\* a start() has failed on the configuration or on a missing tool
TerminalStartFailure ==
  /\ last.op = "start.failed"
  /\ \/ validate(ProfileOf(last.call.profile)) # <<>>
     \/ last.error \in {"rsync is not installed",
                        "inotifywait is not installed (install inotify-tools)"}

\* C24: a start() that fails on the configuration or on a missing
\* prerequisite emits its error event with recoverable = false.
C24_TerminalFailureNotRecoverable ==
  TerminalStartFailure =>
    /\ \E k \in DOMAIN last.ev : last.ev[k].type = "error"
    /\ \A k \in DOMAIN last.ev :
         last.ev[k].type = "error" => ~last.ev[k].recoverable

(***************************************************************************)
(* The caller of start() and the password prompt.                          *)
(***************************************************************************)
\* C25: the caller calls start() at most twice; a second call is made only
\* after the prompt returned a password, which was then set; and when the
\* prompt returns null no retry is made, no password is set or stored, and
\* the call fails.
C25_RetryOnceWithPassword ==
  /\ startCommand.pc # "idle" =>
       /\ startCommand.startCalls <= 2
       /\ startCommand.startCalls = 2 =>
            /\ startCommand.prompted \notin {"unasked", None, ""}
            /\ startCommand.passwords # <<>>
            /\ startCommand.passwords[Len(startCommand.passwords)]
                 = startCommand.prompted
  /\ (last.op = "command.prompted" /\ startCommand.prompted = None) =>
       /\ startCommand.pc = "returned"
       /\ startCommand.outcome = "threw"
       /\ startCommand.startCalls = 1
       /\ startCommand.passwords = last.before.passwords
       /\ startCommand.secret = last.before.secret

\* the prompt was cancelled
C25_Witness ==
  /\ last.op = "command.prompted"
  /\ startCommand.prompted = None
  /\ startCommand.thrown = AuthenticationCancelled

(***************************************************************************)
(* validateSetup.                                                          *)
(***************************************************************************)
\* what a check printed when it passed
PassText(check) == IF check = "directory" THEN ExistsText ELSE WritableText

\* the check of entry e of the log passed
Passed(e) ==
  /\ e.result.success
  /\ e.check # "connection" => trimOutput(e.result.stdout) = PassText(e.check)

SetupOrder == <<"connection", "directory", "write">>

\* C26: validateSetup runs the connection test, the directory check and the
\* write check in this order and runs no check after one that failed;
\* its result satisfies hasWritePermission => remoteDirectoryExists =>
\* connected, and errors is non-empty exactly when a check failed.
C26_ValidateSetupShortCircuits ==
  setup.pc # "idle" =>
    /\ Len(setup.ran) <= 3
    /\ \A k \in 1..Len(setup.ran) :
         /\ setup.ran[k].check = SetupOrder[k]
         /\ k < Len(setup.ran) => Passed(setup.ran[k])
    /\ setup.hasWritePermission => setup.remoteDirectoryExists
    /\ setup.remoteDirectoryExists => setup.connected
    /\ setup.pc = "returned" =>
         /\ (setup.errors # <<>>)
              <=> (\E k \in 1..Len(setup.ran) : ~Passed(setup.ran[k]))
         /\ (setup.errors = <<>>)
              <=> (setup.connected /\ setup.remoteDirectoryExists
                     /\ setup.hasWritePermission)

\* the directory check failed although the command succeeded, and the
\* call returned without a write check
C26_Witness ==
  /\ setup.pc = "returned"
  /\ Len(setup.ran) = 2
  /\ setup.ran[2].result.success
  /\ setup.connected /\ ~setup.remoteDirectoryExists

(***************************************************************************)
(* SyncService.sync: what the orchestrator gets back.                      *)
(***************************************************************************)
\* C27: SyncService.sync on a pending job returns a SyncResult and throws
\* nothing, however the transfer ended; a result that is not successful
\* carries a non-empty errors list; and the job is left completed if the
\* result is successful and failed otherwise.
C27_SyncReturnsStructuredResult ==
  service.pc = "returned" =>
    /\ service.threw = None
    /\ ~service.result.success => service.result.errors # <<>>
    /\ syncJob.status \in {"completed", "failed"}
    /\ syncJob.status = "completed" <=> service.result.success

PortText(port) ==
  CASE port = 22    -> <<"2", "2">>
    [] port = 2222  -> <<"2", "2", "2", "2">>
    [] port = 65535 -> <<"6", "5", "5", "3", "5">>
    [] port = 8     -> <<"8">>

\* text is dir ending in exactly one separator, added if dir had none
WithSeparator(text, dir) ==
  /\ text \in {dir, dir \o <<"/">>}
  /\ text[Len(text)] = "/"
  /\ Len(text) > 1 => text[Len(text) - 1] # "/"

\* the arguments that follow an `--exclude`, in the order of the vector
ExcludeAt(args) ==
  {i \in 1..(Len(args) - 1) : args[i] = <<"-", "-", "e", "x", "c", "l", "u", "d", "e">>}

ExcludedInOrder(args, patterns) ==
  /\ Cardinality(ExcludeAt(args)) = Len(patterns)
  /\ \A i \in ExcludeAt(args) :
       args[i + 1] = patterns[Cardinality({j \in ExcludeAt(args) : j <= i})]

\* C29: the command of a full sync is rsync with -a, -z and --delete, one
\* `--exclude pattern` pair per exclude pattern in profile order, `-e`
\* followed by a remote shell that carries the configured port, and as its
\* last two arguments the local directory with a trailing separator and
\* user@host:remoteDir/, every value an argument of its own.
C29_FullSyncCommand ==
  (service.pc # "idle" /\ service.executor = "full") =>
    LET config == service.job.profile
        args == service.command.args
        n == Len(args)
        arg == {args[i] : i \in 1..n}
        prefix == config.remoteUser \o <<"@">> \o config.remoteHost \o <<":">>
    IN /\ service.command.command = <<"r", "s", "y", "n", "c">>
       /\ {<<"-", "a">>, <<"-", "z">>, <<"-", "-", "d", "e", "l", "e", "t", "e">>} \subseteq arg
       /\ ExcludedInOrder(args, config.exclude)
       /\ \E i \in 1..(n - 1) :
            /\ args[i] = <<"-", "e">>
            /\ includes(args[i + 1],
                        <<"-", "p", " ">> \o PortText(config.sshPort) \o <<" ">>)
       /\ n >= 2
       /\ WithSeparator(args[n - 1], config.localDir)
       /\ Len(args[n]) > Len(prefix)
       /\ SubSeq(args[n], 1, Len(prefix)) = prefix
       /\ WithSeparator(SubSeq(args[n], Len(prefix) + 1, Len(args[n])),
                        config.remoteDir)

\* a full sync was built for a profile with two exclude patterns, a local
\* directory without and a remote directory with a trailing separator
C29_Witness ==
  /\ service.pc = "executing"
  /\ service.executor = "full"
  /\ Len(service.job.profile.exclude) = 2
  /\ ~endsWith(service.job.profile.localDir, sep)
  /\ endsWith(service.job.profile.remoteDir, sep)

(***************************************************************************)
(* Incremental sync of no files.                                           *)
(***************************************************************************)
DeleteFlag == <<"-", "-", "d", "e", "l", "e", "t", "e">>
FilesFromFlag == <<"-", "-", "f", "i", "l", "e", "s", "-", "f", "r", "o", "m", "=", "-">>

Arguments(command) == {command.args[i] : i \in 1..Len(command.args)}

\* C30: buildIncrementalSync(profile, []) returns the program and the
\* argument vector buildFullSync(profile) returns, and a job requested as
\* incremental with no files is executed as a full sync.
C30_EmptyIncrementalIsFull ==
  /\ (builder.pc = "both" /\ builder.files = {}) =>
       /\ builder.incremental.command = builder.full.command
       /\ builder.incremental.args = builder.full.args
  /\ (/\ service.pc # "idle"
      /\ service.job.strategy = "incremental"
      /\ service.job.files = {}) =>
       /\ service.executor = "full"
       /\ DeleteFlag \in Arguments(service.command)
       /\ FilesFromFlag \notin Arguments(service.command)

\* both cases have happened at once: the builder was asked for an
\* incremental command for no files, and the service is executing a job
\* requested as incremental with no files
C30_Witness ==
  /\ builder.pc = "both"
  /\ builder.files = {}
  /\ service.pc = "executing"
  /\ service.job.strategy = "incremental"
  /\ service.job.files = {}

(***************************************************************************)
(* The sync of a change batch.                                             *)
(***************************************************************************)
\* the service is running the job handleFileChanges creates for a batch
\* that is not empty: createIncrementalSyncJob(profile, files)
ChangeBatchJob ==
  /\ service.pc # "idle"
  /\ service.job.strategy = "incremental"
  /\ service.job.files # {}

\* C31: the sync of a non-empty change batch runs with the mirror-deletion
\* flag: --delete is an argument of its rsync command.
C31_ChangeSyncMirrorsDeletion ==
  ChangeBatchJob => DeleteFlag \in Arguments(service.command)

(***************************************************************************)
(* Lines the watcher drops.                                                *)
(***************************************************************************)
\* the paths of ExcludeLines that the patterns .git and *.log exclude: a
\* file below a directory named .git, and files named *.log in either case
ExcludedPaths == {"/work/.git/config", "/work/x.log", "/work/X.LOG"}

\* a line that fails the format, or whose path is excluded
DroppedLine(line) == line.path = "" \/ line.path \in ExcludedPaths

\* C32: a line that fails the two-token format or whose path is excluded
\* inserts nothing into the map and neither arms nor re-arms the
\* quiet-window timer, and no emitted batch holds an excluded path.
C32_DroppedLinesHaveNoEffect ==
  /\ [][(last'.op = "line" /\ \A k \in 1..Len(last'.lines) : DroppedLine(last'.lines[k]))
          => UNCHANGED <<pendingEvents, debounceTimer, window>>]_vars
  /\ [][last'.op = "line" =>
          (DOMAIN pendingEvents') \ (DOMAIN pendingEvents)
            \subseteq {last'.lines[k].path : k \in 1..Len(last'.lines)} \ ExcludedPaths]_vars
  /\ [](/\ (DOMAIN pendingEvents) \cap (ExcludedPaths \cup {""}) = {}
        /\ EmittedBatch =>
             \A k \in 1..Len(last.fired) :
               \A e \in last.fired[k] : e.path \notin ExcludedPaths \cup {""})

\* a chunk of one excluded line arrived while an event was pending with its
\* timer armed
C32_Witness ==
  /\ last.op = "line"
  /\ Len(last.lines) = 1
  /\ last.lines[1].path \in ExcludedPaths
  /\ pendingEvents # EmptyMap
  /\ debounceTimer # {}

(***************************************************************************)
(* What an earlier session leaves behind.                                  *)
(***************************************************************************)
\* the step is the return of the initial full sync of a start() call
InitialSyncReturns ==
  \E i \in Slots : starts[i].pc = "sync" /\ starts'[i].pc # "sync"

\* the step is the end of an incremental job while a start() call is in
\* progress and past its stop(): the job is of an earlier session
LeftOverJobEnds ==
  /\ last'.op = "sync.result"
  /\ \E i \in Slots : starts[i].pc \in {"validating", "which_rsync",
                                         "which_inotifywait", "testConnection",
                                         "sync", "watcher_stopping"}

\* C33: the machine enters watching from connecting only in the step in
\* which the initial full sync of the start() call in progress returns, and
\* the end of an incremental job left over from an earlier session does not
\* change the state of the session being started.
C33_LeftOversChangeNothing ==
  /\ [][(state = "connecting" /\ state' = "watching") => InitialSyncReturns]_vars
  /\ [][LeftOverJobEnds => UNCHANGED <<state, retryCount, recoveryTimeout>>]_vars

\* C34: when the state is idle and no start() call is in progress, no watch
\* process is running, no batch subscription is active and no recovery
\* timer is pending.
C34_IdleIsQuiescent ==
  (state = "idle" /\ \A i \in Slots : starts[i] = NoCall) =>
    /\ \A p \in ProcIds : procs[p] # "running"
    /\ ~watcherSubscription
    /\ recoveryTimeout = "none"

(***************************************************************************)
(* The profile of the session.                                             *)
(***************************************************************************)
\* C35: in idle there is no active profile, no lastError and retryCount is
\* 0; in every other state there is an active profile, and it is the
\* profile passed to the latest start() call.
C35_ProfileOfTheSession ==
  /\ state = "idle" => profile = None /\ lastError = None /\ retryCount = 0
  /\ state # "idle" => profile # None
  /\ (state # "idle" /\ \A i \in Slots : starts[i].pc # "stopping")
       => profile = recent.alias

(***************************************************************************)
(* The terminal event of a started job.                                    *)
(***************************************************************************)
\* the terminal events of the step that has just been taken
TerminalEvents ==
  {k \in 1..Len(last.ev) : last.ev[k].type \in {"syncCompleted", "syncFailed"}}

\* the step that has just been taken ended the transfer of a started job:
\* the initial full sync of a start() call, or the job of a change batch
InitialSyncFailed == last.op = "start.failed" /\ last.call.pc = "sync"

\* C36: the job whose sync-started event was emitted gets exactly one
\* terminal event when its transfer returns, sync-completed if it succeeded
\* and sync-failed if it failed, for the initial full sync of start() as
\* well as for the incremental sync of a change batch.
C36_StartedJobsGetTerminalEvent ==
  /\ last.op = "sync.result" =>
       /\ Cardinality(TerminalEvents) = 1
       /\ \A k \in TerminalEvents :
            /\ last.ev[k].type =
                 (IF last.success THEN "syncCompleted" ELSE "syncFailed")
            /\ last.ev[k].job.strategy = "incremental"
  /\ InitialSyncFailed =>
       /\ last.call.fullStarted = 1
       /\ Cardinality(TerminalEvents) = 1
       /\ \A k \in TerminalEvents :
            /\ last.ev[k].type = "syncFailed"
            /\ last.ev[k].job.strategy = "full"

(***************************************************************************)
(* A batch outside watching.                                               *)
(***************************************************************************)
\* the step that has just been taken delivered a batch to the orchestrator
\* while the machine was not in watching
BatchOutsideWatching ==
  /\ last.op = "flush"
  /\ last.from # "watching"
  /\ last.heard
  /\ last.fired # <<>>

\* C37: a batch delivered to the orchestrator in a state other than
\* watching changes neither the state, the active profile nor retryCount,
\* creates no job, and emits no files-changed or sync-started event.
C37_BatchOutsideWatchingIgnored ==
  /\ [][BatchOutsideWatching' =>
          UNCHANGED <<state, profile, retryCount, lastError, handlers,
                      recoveryTimeout>>]_vars
  /\ [](BatchOutsideWatching =>
          \A k \in 1..Len(last.ev) :
            last.ev[k].type \notin {"filesChanged", "syncStarted",
                                    "stateChanged"})

\* a batch was delivered while the machine was syncing
C37_Witness ==
  BatchOutsideWatching /\ last.from = "syncing" /\ state = "syncing"

(***************************************************************************)
(* Recovering and its timer.                                               *)
(***************************************************************************)
\* C38: whenever the machine is in recovering a recovery timer is pending
\* (which is what makes the machine leave recovering: for watching when the
\* timer fires, for idle when stop() is called first).
C38_RecoveringHasTimer ==
  state = "recovering" => recoveryTimeout = "pending"

(***************************************************************************)
(* Pending events and the quiet-window timer.                              *)
(***************************************************************************)
\* C39: a non-empty pending-event map has a quiet-window timer pending, and
\* an event leaves the map only in an emitted batch (the timer's, or the
\* final one of stop()): no accepted event is stranded or lost.
C39_PendingEventsAreEmitted ==
  /\ [](pendingEvents # EmptyMap => debounceTimer # {})
  /\ [][\A x \in DOMAIN pendingEvents :
          x \notin DOMAIN pendingEvents' =>
            /\ "fired" \in DOMAIN last' /\ last'.fired # <<>>
            /\ pendingEvents[x] \in last'.fired[1]]_vars

(***************************************************************************)
(* The watch process the watcher tracks.                                   *)
(***************************************************************************)
\* C40: a watch process that is running (spawned, not signalled, not
\* exited) is the one `this.process` refers to, so that isRunning() is true
\* while it lives and the next stop() signals it; in particular at most one
\* watch process is running.
C40_TracksTheLiveProcess ==
  \A p \in ProcIds : procs[p] = "running" => process = p

====
